---- MODULE Spec2Model ----
(***************************************************************************)
(* A model of the edge-cache node of src/cdn/sovereign-node.mjs: the       *)
(* LRUCache class, the location table (dht) with updateDHT, the peer       *)
(* registry with handlePeerMessage, and the tiered handleRequest pipeline  *)
(* with its await points.                                                  *)
(*                                                                         *)
(* JavaScript values are modelled as follows.  Strings are TLA+ strings    *)
(* (ASCII only, so Buffer.byteLength(v) = v.length = Len(v)).  null and    *)
(* undefined are the reserved strings Null and Undefined, which are no     *)
(* member of any set of contents, paths or node identifiers.  A JS Map is  *)
(* a sequence of entries in insertion order (Map iteration order), each    *)
(* entry carrying its key.                                                 *)
(***************************************************************************)
EXTENDS Naturals, Integers, Sequences, FiniteSets, TLC

VARIABLES
  cache,      \* the LRUCache object: maxSize, maxBytes, cache (the Map), currentBytes
  now,        \* Date.now()
  lastUsed,   \* history: keys ordered by their most recent successful get or set
  lastPut,    \* history: keys ordered by their most recent set
  lastSet,    \* history: the last LRUCache.set call and the keys it evicted
  dht,        \* this.dht: contentHash -> array of node identifiers
  dhtAdded,   \* history: per contentHash, the identifiers added by updateDHT, in order
  dhtCount,   \* history: the number of updateDHT calls made from outside the node
  lastRecord, \* history: the last updateDHT call and the array it found
  peers,      \* this.peers: nodeId -> peer info
  newPeerLog, \* the node identifiers of the '[Discovery] New peer' log lines, in order
  msgCount,   \* history: the number of datagrams received
  lastMsg,    \* history: the last datagram received and what handling it did
  githubBacking, \* whether config.githubBacking is set
  stats,      \* this.stats
  reqs,       \* the handleRequest calls: where each stands, its response, its history
  reqCount,   \* history: the number of handleRequest calls
  lastOp,     \* history: the last handler or continuation of the node that ran
  server,     \* this.server: null, or the HTTP server and whether it listens
  discoverySocket,  \* this.discoverySocket: null, or the UDP socket and whether it is open
  announceInterval, \* this.announceInterval: null, or the timer and whether it is active
  startPc,    \* where the call of start() stands
  lastAnnounce, \* the last announcement sent on the discovery socket
  lifeLog,    \* history: the calls of start and shutdown and their effects, in order
  audit,      \* the AuditLog object: logPath, entries, hashChain, seenHashes; its append calls
  limiter,    \* the RateLimiter object: maxRequests, windowMs, burstSize, clients, stats
  graph,      \* the DependencyGraph object: nodes; the results of its last queries
  loader      \* the CapabilityLoader object: capabilities; its loadFromConfig call

cacheVars == <<cache, lastUsed, lastPut, lastSet>>
dhtVars == <<dht, dhtAdded, dhtCount, lastRecord>>
peerVars == <<peers, newPeerLog, msgCount, lastMsg>>
reqVars == <<githubBacking, stats, reqs, reqCount, lastOp>>
lifeVars == <<server, discoverySocket, announceInterval, startPc, lastAnnounce, lifeLog>>
capVars == <<audit, limiter, graph, loader>>
nodeVars == <<cacheVars, now, dhtVars, peerVars, reqVars, lifeVars>>
vars == <<cache, now, lastUsed, lastPut, lastSet, dht, dhtAdded, dhtCount, lastRecord,
          peers, newPeerLog, msgCount, lastMsg, githubBacking, stats, reqs,
          reqCount, lastOp, server, discoverySocket, announceInterval, startPc,
          lastAnnounce, lifeLog, audit, limiter, graph, loader>>

-----------------------------------------------------------------------------
(* Bounds of the model *)

MaxCacheSize == 3    \* maxSize is drawn from 1..MaxCacheSize
MaxCacheBytes == 3   \* maxBytes is drawn from 2..MaxCacheBytes
MaxDhtCalls == 5     \* updateDHT calls made from outside the node
MaxMessages == 3     \* datagrams received
MaxTime == 1         \* Date.now() runs over 0..MaxTime
MaxRequests == 2     \* handleRequest calls
MaxAnnounces == 2    \* announcements sent

-----------------------------------------------------------------------------
(* JavaScript values *)

Null == "<null>"
Undefined == "<undefined>"
\* undefined where the other values are numbers (port, cacheSize, cacheBytes).
UndefinedNum == -1

\* Request paths (cache keys) and the contents served under them.
Paths == {"/a.txt", "/b.txt", "/c.txt"}
Contents == {"", "x", "yy", "zzzz"}

\* Node identifiers: this node's and those of other nodes.
SelfId == "self"
PeerIds == {"n1", "n2", "n3", "n4", "n5"}
NodeIds == {SelfId} \cup PeerIds

\* Buffer.byteLength(value) of an ASCII string.
ByteLength(value) == Len(value)

\* ToBoolean(v) for the values of the model: null, undefined and "" are falsy.
Truthy(v) == v # Null /\ v # Undefined /\ v # ""

-----------------------------------------------------------------------------
(* A JS Map as a sequence of entries in insertion order *)

MapKeys(m) == [i \in 1..Len(m) |-> m[i].key]

MapHas(m, key) == \E i \in 1..Len(m) : m[i].key = key

MapGet(m, key) == m[CHOOSE i \in 1..Len(m) : m[i].key = key]

MapDelete(m, key) == SelectSeq(m, LAMBDA e : e.key # key)

\* Map.prototype.set: an existing key keeps its position, a new key goes last.
MapSet(m, key, e) ==
  IF MapHas(m, key)
    THEN [i \in 1..Len(m) |-> IF m[i].key = key THEN e ELSE m[i]]
    ELSE Append(m, e)

-----------------------------------------------------------------------------
(* class LRUCache *)

\* new LRUCache(maxSize, maxBytes)
NewLRUCache(maxSize, maxBytes) ==
  [maxSize |-> maxSize, maxBytes |-> maxBytes, cache |-> <<>>, currentBytes |-> 0]

\* Mutant of LRUGet: a hit does not move the entry to the end of the Map.
LRUGetNoRefresh(c, key) ==
  IF ~MapHas(c.cache, key)
    THEN [value |-> Null, c |-> c]
    ELSE [value |-> MapGet(c.cache, key).value, c |-> c]

\* LRUCache.get: the returned value and the cache after the call.
LRUGet(c, key) ==
  IF ~MapHas(c.cache, key)
    THEN [value |-> Null, c |-> c]
    ELSE LET entry == MapGet(c.cache, key)
         IN  [value |-> entry.value,
              c |-> [c EXCEPT !.cache = MapSet(MapDelete(c.cache, key), key, entry)]]

\* Mutant of RemoveOld: the old entry goes, its size stays counted.
RemoveOldKeepBytes(c, key) ==
  IF MapHas(c.cache, key)
    THEN [c EXCEPT !.cache = MapDelete(c.cache, key)]
    ELSE c

\* LRUCache.set, "Remove old entry if exists".
RemoveOld(c, key) ==
  IF MapHas(c.cache, key)
    THEN [c EXCEPT !.currentBytes = @ - MapGet(c.cache, key).size,
                   !.cache = MapDelete(c.cache, key)]
    ELSE c

\* Mutant of EvictCond: > for >= in the item-count test.
EvictCondOffByOne(c, size) ==
  /\ (Len(c.cache) > c.maxSize \/ c.currentBytes + size > c.maxBytes)
  /\ Len(c.cache) > 0

\* Mutant of EvictCond: the byte budget is not tested.
EvictCondCountOnly(c, size) ==
  /\ Len(c.cache) >= c.maxSize
  /\ Len(c.cache) > 0

\* The condition of the eviction loop of LRUCache.set.
EvictCond(c, size) ==
  /\ (Len(c.cache) >= c.maxSize \/ c.currentBytes + size > c.maxBytes)
  /\ Len(c.cache) > 0

\* One turn of the eviction loop: the first key of the Map goes.
EvictFirst(c) ==
  LET firstKey == c.cache[1].key
      entry == MapGet(c.cache, firstKey)
  IN  [c EXCEPT !.currentBytes = @ - entry.size,
                !.cache = MapDelete(c.cache, firstKey)]

RECURSIVE Evict(_, _)
Evict(c, size) == IF EvictCond(c, size) THEN Evict(EvictFirst(c), size) ELSE c

\* The keys the eviction loop removes, in order.
RECURSIVE Evicted(_, _)
Evicted(c, size) ==
  IF EvictCond(c, size)
    THEN <<c.cache[1].key>> \o Evicted(EvictFirst(c), size)
    ELSE <<>>

\* LRUCache.set, "Add new entry".
AddEntry(c, key, value, size, ts) ==
  [c EXCEPT !.cache = MapSet(c.cache, key,
                             [key |-> key, value |-> value, size |-> size,
                              timestamp |-> ts]),
            !.currentBytes = @ + size]

\* Mutant of LRUSet: the old entry of the key is not removed first.
LRUSetNoRemove(c, key, value, ts) ==
  LET size == ByteLength(value)
  IN  AddEntry(Evict(c, size), key, value, size, ts)

\* Mutant of LRUSet: the eviction loop runs before the old entry is removed.
LRUSetEvictFirst(c, key, value, ts) ==
  LET size == ByteLength(value)
  IN  AddEntry(RemoveOld(Evict(c, size), key), key, value, size, ts)

\* LRUCache.set
LRUSet(c, key, value, ts) ==
  LET size == ByteLength(value)
  IN  AddEntry(Evict(RemoveOld(c, key), size), key, value, size, ts)

\* LRUCache.has
LRUHas(c, key) == MapHas(c.cache, key)

\* Mutant of LRUHasCall: has refreshes the entry's recency as get does.
LRUHasRefresh(c, key) == [value |-> LRUHas(c, key), c |-> LRUGet(c, key).c]

\* A call of LRUCache.has: the returned value and the cache after the call.
LRUHasCall(c, key) == [value |-> LRUHas(c, key), c |-> c]

\* LRUCache.size and LRUCache.bytes (getters)
LRUSize(c) == Len(c.cache)
LRUBytes(c) == c.currentBytes

\* LRUCache.clear
LRUClear(c) == [c EXCEPT !.cache = <<>>, !.currentBytes = 0]

-----------------------------------------------------------------------------
(* History of the cache operations *)

\* key becomes the most recently used key.
Touch(used, key) == Append(SelectSeq(used, LAMBDA k : k # key), key)

NoSet == [key |-> Null, value |-> Null, victims |-> <<>>, before |-> <<>>,
          after |-> <<>>, residents |-> {}, bytes |-> 0, used |-> <<>>,
          put |-> <<>>, prev |-> "none"]

\* The record of the call set(key, value) on cache c: the keys before and
\* after, the residents and byte count the eviction loop starts from, the
\* keys it evicts, the use and put orders at the call, and the kind of the
\* operation that ran just before it.
SetRecord(c, key, value, used, put) ==
  LET c1 == RemoveOld(c, key)
  IN  [key |-> key, value |-> value,
       victims |-> Evicted(c1, ByteLength(value)),
       before |-> MapKeys(c.cache),
       after |-> MapKeys(LRUSet(c, key, value, 0).cache),
       residents |-> {c1.cache[i].key : i \in 1..Len(c1.cache)},
       bytes |-> c1.currentBytes,
       used |-> used, put |-> put, prev |-> lastOp.kind]

-----------------------------------------------------------------------------
(* The cache's operations as actions.  Each comes in two forms: with the  *)
(* operation recorded in lastOp as op, and with lastOp left as it is.     *)

CacheGetAs(key, op) ==
  LET r == LRUGet(cache, key)
  IN  /\ cache' = r.c
      /\ lastUsed' = IF r.value # Null THEN Touch(lastUsed, key) ELSE lastUsed
      /\ lastOp' = op
      /\ UNCHANGED <<now, lastPut, lastSet>>
      /\ UNCHANGED <<githubBacking, stats, reqs, reqCount>>
      /\ UNCHANGED <<dhtVars, peerVars, lifeVars, capVars>>

CacheSetAs(key, value, op) ==
  /\ cache' = LRUSet(cache, key, value, now)
  /\ lastUsed' = Touch(lastUsed, key)
  /\ lastPut' = Touch(lastPut, key)
  /\ lastSet' = SetRecord(cache, key, value, lastUsed, lastPut)
  /\ lastOp' = op
  /\ UNCHANGED now
  /\ UNCHANGED <<githubBacking, stats, reqs, reqCount>>
  /\ UNCHANGED <<dhtVars, peerVars, lifeVars, capVars>>

CacheHasAs(key, op) ==
  /\ cache' = LRUHasCall(cache, key).c
  /\ lastOp' = op
  /\ UNCHANGED <<now, lastUsed, lastPut, lastSet>>
  /\ UNCHANGED <<githubBacking, stats, reqs, reqCount>>
  /\ UNCHANGED <<dhtVars, peerVars, lifeVars, capVars>>

CacheClearAs(op) ==
  /\ cache' = LRUClear(cache)
  /\ lastOp' = op
  /\ UNCHANGED <<now, lastUsed, lastPut, lastSet>>
  /\ UNCHANGED <<githubBacking, stats, reqs, reqCount>>
  /\ UNCHANGED <<dhtVars, peerVars, lifeVars, capVars>>

CacheGet(key) == CacheGetAs(key, lastOp)
CacheSet(key, value) == CacheSetAs(key, value, lastOp)
CacheHas(key) == CacheHasAs(key, lastOp)
CacheClear == CacheClearAs(lastOp)

-----------------------------------------------------------------------------------------------------------------------------------------------------
(* The location table: this.dht and updateDHT *)

\* "Limit replication factor to 3"
ReplicationFactor == 3

\* hashPath: the SHA-256 digest of the path, in hexadecimal.
HashPath(path) ==
  CASE path = "/a.txt" ->
         "54fae40d857b06f54c7c320992e02adf1e21ba8243de5e7511abf115c248d07d"
    [] path = "/b.txt" ->
         "a8aa7e034d1a9a3b4daeef67cb95b6ac7ccb205438279a3482cd05fc1b81a3a8"
    [] path = "/c.txt" ->
         "1fea50f5eb579d394bcd8c8880b961313d924c8b7c3fea511b8094da072a8eb5"

Hashes == {HashPath(p) : p \in Paths}

\* Array.prototype.includes
Includes(nodes, nodeId) == \E i \in 1..Len(nodes) : nodes[i] = nodeId

\* Mutant of LimitReplication: pop() for shift(), the newest identifier goes.
LimitReplicationPop(nodes) ==
  IF Len(nodes) > ReplicationFactor THEN SubSeq(nodes, 1, Len(nodes) - 1) ELSE nodes

\* updateDHT: if (nodes.length > 3) nodes.shift()
LimitReplication(nodes) ==
  IF Len(nodes) > ReplicationFactor THEN Tail(nodes) ELSE nodes

\* Mutant of UpdateDHT: no includes() test, the identifier is always pushed.
UpdateDHTNoIncludes(d, contentHash, nodeId) ==
  LET d1 == IF contentHash \notin DOMAIN d THEN d @@ (contentHash :> <<>>) ELSE d
  IN  [d1 EXCEPT ![contentHash] = LimitReplication(Append(d1[contentHash], nodeId))]

\* Mutant of UpdateDHT: an address without an entry gets none.
UpdateDHTExistingOnly(d, contentHash, nodeId) ==
  IF contentHash \notin DOMAIN d THEN d
  ELSE IF ~Includes(d[contentHash], nodeId)
    THEN [d EXCEPT ![contentHash] = LimitReplication(Append(d[contentHash], nodeId))]
    ELSE d

\* updateDHT(contentHash, nodeId): the table after the call.
UpdateDHT(d, contentHash, nodeId) ==
  LET d1 == IF contentHash \notin DOMAIN d THEN d @@ (contentHash :> <<>>) ELSE d
      nodes == d1[contentHash]
  IN  IF ~Includes(nodes, nodeId)
        THEN [d1 EXCEPT ![contentHash] = LimitReplication(Append(nodes, nodeId))]
        ELSE d1

NoRecord == [contentHash |-> Null, nodeId |-> Null, before |-> <<>>]

\* this.dht.get(contentHash): the array of contentHash, the empty array
\* standing for undefined when the table has no entry for it (handleRequest
\* treats the two alike, and updateDHT leaves no entry empty).
NodesOf(d, contentHash) ==
  IF contentHash \in DOMAIN d THEN d[contentHash] ELSE <<>>

\* The history of the additions after the call updateDHT(contentHash, nodeId):
\* the call adds nodeId exactly when the entry does not hold it already.
AddedAfter(added, d, contentHash, nodeId) ==
  IF ~Includes(NodesOf(d, contentHash), nodeId)
    THEN [added EXCEPT ![contentHash] = Append(@, nodeId)]
    ELSE added

\* A call of updateDHT from outside the node (a test, an embedding program).
RecordDHT(contentHash, nodeId) ==
  /\ dhtCount < MaxDhtCalls
  /\ dht' = UpdateDHT(dht, contentHash, nodeId)
  /\ dhtAdded' = AddedAfter(dhtAdded, dht, contentHash, nodeId)
  /\ dhtCount' = dhtCount + 1
  /\ lastRecord' = [contentHash |-> contentHash, nodeId |-> nodeId,
                    before |-> NodesOf(dht, contentHash)]
  /\ lastOp' = [kind |-> "updateDHT", req |-> 0]
  /\ UNCHANGED <<now, githubBacking, stats, reqs, reqCount>>
  /\ UNCHANGED <<cacheVars, peerVars, lifeVars, capVars>>

-----------------------------------------------------------------------------
(* The peer registry: this.peers and handlePeerMessage *)

\* What JSON.parse(msg.toString()) makes of a datagram.  json is "invalid"
\* (JSON.parse throws), "null", "scalar" (a number, string, boolean or
\* array: every property read below gives undefined) or "object"; the other
\* fields are the properties of the parsed value that the handler reads.
Datagram(json, type, nodeId, nodeName, port, cacheSize, cacheBytes, peerStats) ==
  [json |-> json, type |-> type, nodeId |-> nodeId, nodeName |-> nodeName,
   port |-> port, cacheSize |-> cacheSize, cacheBytes |-> cacheBytes,
   stats |-> peerStats]

\* The empty object {} and an absent stats property.
EmptyObject == [defined |-> TRUE, requests |-> UndefinedNum,
                cacheHits |-> UndefinedNum, uptime |-> UndefinedNum]
NoStats == [defined |-> FALSE, requests |-> UndefinedNum,
            cacheHits |-> UndefinedNum, uptime |-> UndefinedNum]

\* a || b on strings, on numbers and on the stats object.
OrString(a, b) == IF Truthy(a) THEN a ELSE b
OrNumber(a, b) == IF a # UndefinedNum /\ a # 0 THEN a ELSE b
OrObject(a, b) == IF a.defined THEN a ELSE b

\* typeof v === 'string', for the values an identifier takes in the model.
IsString(v) == v # Undefined /\ v # Null

\* The peer info handlePeerMessage registers.
PeerInfo(data, rinfo, ts) ==
  [nodeId |-> data.nodeId,
   nodeName |-> OrString(data.nodeName, "unknown"),
   address |-> rinfo.address,
   port |-> data.port,
   lastSeen |-> ts,
   cacheSize |-> OrNumber(data.cacheSize, 0),
   cacheBytes |-> OrNumber(data.cacheBytes, 0),
   stats |-> OrObject(data.stats, EmptyObject)]

\* Mutant of PeersSet: the registry is replaced by the one record.
PeersSetReplace(p, nodeId, info) == [k \in {nodeId} |-> info]

\* this.peers.set(nodeId, info); the order of the Map's keys is not kept.
PeersSet(p, nodeId, info) ==
  [k \in DOMAIN p \cup {nodeId} |-> IF k = nodeId THEN info ELSE p[k]]

\* Mutant of IsPeerAnnounce: no comparison with this.nodeId.
IsPeerAnnounceFromAnyone(data) == data.type = "peer_announce"

\* The guard of handlePeerMessage.
IsPeerAnnounce(data) == data.type = "peer_announce" /\ data.nodeId # SelfId

\* handlePeerMessage(msg, rinfo): the registry after the call, the node
\* identifier of the 'New peer' line it logged (Null if none), and whether an
\* exception reached the caller.  The try block ends at the first throw
\* (JSON.parse of invalid text, data.type of null, data.nodeId.substring of a
\* non-string); what it did before stays done, and the catch swallows it.
PeerMessageResult(p, data, rinfo, ts) ==
  IF data.json = "invalid" \/ data.json = "null"
    THEN [peers |-> p, logged |-> Null, raised |-> FALSE]
  ELSE IF IsPeerAnnounce(data)
    THEN LET isNew == data.nodeId \notin DOMAIN p
         IN  [peers |-> PeersSet(p, data.nodeId, PeerInfo(data, rinfo, ts)),
              logged |-> IF isNew /\ IsString(data.nodeId)
                           THEN data.nodeId ELSE Null,
              raised |-> FALSE]
  ELSE [peers |-> p, logged |-> Null, raised |-> FALSE]

NoMsg == [data |-> Datagram("none", Undefined, Undefined, Undefined,
                            UndefinedNum, UndefinedNum, UndefinedNum, NoStats),
          rinfo |-> [address |-> Null], changed |-> FALSE, raised |-> FALSE]

\* The 'message' event of the discovery socket.
HandlePeerMessage(data, rinfo) ==
  LET r == PeerMessageResult(peers, data, rinfo, now)
  IN  /\ msgCount < MaxMessages
      /\ peers' = r.peers
      /\ newPeerLog' = IF r.logged # Null THEN Append(newPeerLog, r.logged)
                       ELSE newPeerLog
      /\ msgCount' = msgCount + 1
      /\ lastMsg' = [data |-> data, rinfo |-> rinfo,
                     changed |-> r.peers # peers, raised |-> r.raised]
      /\ lastOp' = [kind |-> "handlePeerMessage", req |-> 0]
      /\ UNCHANGED <<now, githubBacking, stats, reqs, reqCount>>
      /\ UNCHANGED <<cacheVars, dhtVars, lifeVars, capVars>>

\* Time passes.
Tick ==
  /\ now < MaxTime
  /\ now' = now + 1
  /\ UNCHANGED <<cacheVars, dhtVars, peerVars, reqVars, lifeVars, capVars>>

-----------------------------------------------------------------------------
(* handleRequest: the request resolution pipeline *)

AdminPaths == {"/stats", "/health", "/peers"}

NoInfo == [kind |-> "none"]

\* What res.writeHead and res.end sent: the status, the X-CDN-Source and
\* X-CDN-Peer headers (Null when not set), the body of a content response,
\* and for an administrative path what the JSON body was computed from.
Response(status, source, peer, body, info) ==
  [status |-> status, source |-> source, peer |-> peer, body |-> body,
   info |-> info]

NoResponse == Response(0, Null, Null, Null, NoInfo)

NoOutcome == [ok |-> FALSE, text |-> Null, kind |-> "none"]

\* A handleRequest call not made yet.
NewRequest ==
  [pc |-> "new", path |-> Null, idx |-> 0, peer |-> Null, res |-> NoResponse,
   wasCached |-> FALSE, hint |-> <<>>, attempts |-> <<>>, reads |-> 0,
   read |-> NoOutcome, wrote |-> Null, prev |-> [kind |-> "none", req |-> 0]]

\* getStats(): the fields of the snapshot that are read from the node's state.
GetStats ==
  [kind |-> "stats", nodeId |-> SelfId, cacheSize |-> LRUSize(cache),
   cacheBytes |-> LRUBytes(cache), maxSize |-> cache.maxSize,
   maxBytes |-> cache.maxBytes, stats |-> stats,
   peerCount |-> Cardinality(DOMAIN peers), dhtEntries |-> Cardinality(DOMAIN dht)]

\* getPeerInfo(); the order of the array is not kept.
GetPeerInfo == [kind |-> "peers", peers |-> {peers[k] : k \in DOMAIN peers}]

\* The body of the response to an administrative path.
AdminInfo(path) ==
  CASE path = "/stats" -> GetStats
    [] path = "/health" -> [kind |-> "health", status |-> "ok", nodeId |-> SelfId]
    [] path = "/peers" -> GetPeerInfo

\* for (const nodeId of nodes): the index of the next element from index i
\* on that is not skipped as self, 0 when the array is exhausted.  The
\* iterator reads the array as it is when it is asked for the next element.
NextCandidate(nodes, i) ==
  IF \E j \in i..Len(nodes) : nodes[j] # SelfId
    THEN CHOOSE j \in i..Len(nodes) :
           /\ nodes[j] # SelfId
           /\ \A k \in i..(j-1) : nodes[k] = SelfId
    ELSE 0

\* Mutant of Fallback: no test of this.githubBacking, the read is always issued.
FallbackNoGuard(st, rq) ==
  [stats |-> [st EXCEPT !.githubFallbacks = @ + 1],
   rq |-> [rq EXCEPT !.pc = "awaitRead", !.idx = 0, !.peer = Null,
                     !.reads = @ + 1]]

\* Step 3, up to its await: without a backing store the request ends with
\* 404; with one, githubFallbacks is counted and the read is issued.
Fallback(st, rq) ==
  IF ~githubBacking
    THEN [stats |-> st,
          rq |-> [rq EXCEPT !.pc = "done", !.idx = 0, !.peer = Null,
                            !.res = Response(404, Null, Null,
                                             "Not found (no backing store)", NoInfo)]]
    ELSE [stats |-> [st EXCEPT !.githubFallbacks = @ + 1],
          rq |-> [rq EXCEPT !.pc = "awaitRead", !.idx = 0, !.peer = Null,
                            !.reads = @ + 1]]

\* Mutant of PeerLoop: peerRequests is never counted.
PeerLoopNoCount(st, rq, i) ==
  LET nodes == NodesOf(dht, HashPath(rq.path))
      j == NextCandidate(nodes, i)
  IN  IF j = 0 THEN Fallback(st, rq)
      ELSE IF nodes[j] \notin DOMAIN peers
        THEN [stats |-> st,
              rq |-> [rq EXCEPT !.pc = "awaitNull", !.idx = j, !.peer = nodes[j]]]
        ELSE [stats |-> st,
              rq |-> [rq EXCEPT !.pc = "awaitFetch", !.idx = j, !.peer = nodes[j]]]

\* Mutant of PeerLoop: peerRequests is counted before the registry lookup.
PeerLoopCountAbsent(st, rq, i) ==
  LET nodes == NodesOf(dht, HashPath(rq.path))
      j == NextCandidate(nodes, i)
  IN  IF j = 0 THEN Fallback(st, rq)
      ELSE IF nodes[j] \notin DOMAIN peers
        THEN [stats |-> [st EXCEPT !.peerRequests = @ + 1],
              rq |-> [rq EXCEPT !.pc = "awaitNull", !.idx = j, !.peer = nodes[j]]]
        ELSE [stats |-> [st EXCEPT !.peerRequests = @ + 1],
              rq |-> [rq EXCEPT !.pc = "awaitFetch", !.idx = j, !.peer = nodes[j]]]

\* The loop over the location entry from index i on, up to its next await:
\* the fetch from the next candidate, or step 3 when there is none.
\* fetchFromPeer returns null at once for a candidate that is not in the
\* registry (the caller still awaits it); for a registered one it counts
\* peerRequests and issues the fetch.
PeerLoop(st, rq, i) ==
  LET nodes == NodesOf(dht, HashPath(rq.path))
      j == NextCandidate(nodes, i)
  IN  IF j = 0 THEN Fallback(st, rq)
      ELSE IF nodes[j] \notin DOMAIN peers
        THEN [stats |-> st,
              rq |-> [rq EXCEPT !.pc = "awaitNull", !.idx = j, !.peer = nodes[j]]]
        ELSE [stats |-> [st EXCEPT !.peerRequests = @ + 1],
              rq |-> [rq EXCEPT !.pc = "awaitFetch", !.idx = j, !.peer = nodes[j]]]

\* Mutant of CacheHit: the lookup is counted as a miss as well.
CacheHitAlsoMiss(st, cached) ==
  [st EXCEPT !.cacheHits = @ + 1, !.cacheMisses = @ + 1,
             !.bytesServed = @ + Len(cached)]

\* The counters after a cache hit: cacheHits++ and bytesServed +=
\* cached.length.
CacheHit(st, cached) ==
  [st EXCEPT !.cacheHits = @ + 1, !.bytesServed = @ + Len(cached)]

\* handleRequest(req, res) up to its first await or its return.
HandleRequest(path) ==
  LET r == reqCount + 1
      st == [stats EXCEPT !.requests = @ + 1]
      rq == [NewRequest EXCEPT !.path = path, !.prev = lastOp]
  IN  /\ reqCount < MaxRequests
      /\ reqCount' = r
      /\ lastOp' = [kind |-> "handleRequest", req |-> r]
      /\ IF path \in AdminPaths
           THEN /\ stats' = st
                /\ reqs' = [reqs EXCEPT ![r] =
                     [rq EXCEPT !.pc = "done",
                                !.res = Response(200, Null, Null, Null, AdminInfo(path))]]
                /\ UNCHANGED cacheVars
           ELSE LET g == LRUGet(cache, path)
                    rq1 == [rq EXCEPT !.wasCached = LRUHas(cache, path),
                                      !.hint = NodesOf(dht, HashPath(path))]
                IN  /\ cache' = g.c
                    /\ lastUsed' = IF LRUHas(cache, path) THEN Touch(lastUsed, path)
                                   ELSE lastUsed
                    /\ UNCHANGED <<lastPut, lastSet>>
                    /\ IF Truthy(g.value)
                         THEN /\ stats' = CacheHit(st, g.value)
                              /\ reqs' = [reqs EXCEPT ![r] =
                                   [rq1 EXCEPT !.pc = "done",
                                               !.res = Response(200, "cache", Null,
                                                                g.value, NoInfo)]]
                         ELSE LET n == PeerLoop([st EXCEPT !.cacheMisses = @ + 1], rq1, 1)
                              IN  /\ stats' = n.stats
                                  /\ reqs' = [reqs EXCEPT ![r] = n.rq]
      /\ UNCHANGED <<now, githubBacking>>
      /\ UNCHANGED <<dhtVars, peerVars, lifeVars, capVars>>

\* The await of a fetchFromPeer call that returned null at once: the
\* content is null and the loop goes on to the next element.
PeerAbsent(r) ==
  LET n == PeerLoop(stats, reqs[r], reqs[r].idx + 1)
  IN  /\ reqs[r].pc = "awaitNull"
      /\ stats' = n.stats
      /\ reqs' = [reqs EXCEPT ![r] = n.rq]
      /\ lastOp' = [kind |-> "peerAbsent", req |-> r]
      /\ UNCHANGED <<now, githubBacking, reqCount>>
      /\ UNCHANGED <<cacheVars, dhtVars, peerVars, lifeVars, capVars>>

\* Mutant of FetchedContent: the failure is handed on as content.
FetchedContentSurfaced(o) == IF o.kind = "ok" THEN o.text ELSE "Peer Error"

\* What fetchFromPeer returns once its fetch has ended with outcome o: the
\* text of a response that is ok, null for any other status and for a fetch
\* or a body read that threw.
FetchedContent(o) == IF o.kind = "ok" THEN o.text ELSE Null

\* Mutant of PeerHit: the node records itself as a holder, as step 3 does.
PeerHitRecorded(c, d, path, content, ts) ==
  [cache |-> LRUSet(c, path, content, ts),
   dht |-> UpdateDHT(d, HashPath(path), SelfId)]

\* What a peer hit does to the cache and to the location table: the
\* content is cached, and there is no updateDHT call.
PeerHit(c, d, path, content, ts) ==
  [cache |-> LRUSet(c, path, content, ts), dht |-> d]

\* The await of a fetchFromPeer call whose fetch has ended with outcome o.
PeerFetched(r, o) ==
  LET rq == [reqs[r] EXCEPT !.attempts =
               Append(@, [nodeId |-> reqs[r].peer, ok |-> o.kind = "ok",
                          text |-> o.text])]
      content == FetchedContent(o)
      hit == PeerHit(cache, dht, rq.path, content, now)
  IN  /\ reqs[r].pc = "awaitFetch"
      /\ lastOp' = [kind |-> "peerFetched", req |-> r]
      /\ IF Truthy(content)
           THEN /\ stats' = [stats EXCEPT !.peerHits = @ + 1,
                                          !.bytesServed = @ + Len(content)]
                /\ cache' = hit.cache
                /\ dht' = hit.dht
                /\ lastUsed' = Touch(lastUsed, rq.path)
                /\ lastPut' = Touch(lastPut, rq.path)
                /\ lastSet' = SetRecord(cache, rq.path, content, lastUsed, lastPut)
                /\ reqs' = [reqs EXCEPT ![r] =
                     [rq EXCEPT !.pc = "done", !.wrote = content,
                                !.res = Response(200, "peer", rq.peer, content, NoInfo)]]
           ELSE LET n == PeerLoop(stats, rq, rq.idx + 1)
                IN  /\ stats' = n.stats
                    /\ reqs' = [reqs EXCEPT ![r] = n.rq]
                    /\ UNCHANGED <<cacheVars, dht>>
      /\ UNCHANGED <<now, githubBacking, reqCount>>
      /\ UNCHANGED <<dhtAdded, dhtCount, lastRecord>>
      /\ UNCHANGED <<peerVars, lifeVars, capVars>>

\* Mutant of CatchRead: the request stays at its await.
CatchReadStuck(rq) == [rq EXCEPT !.pc = "awaitRead"]

\* Mutant of CatchRead: the read is issued again.
CatchReadRetry(rq) == [rq EXCEPT !.pc = "awaitRead", !.reads = @ + 1]

\* The catch block of step 3: the request ends with 404.
CatchRead(rq) ==
  [rq EXCEPT !.pc = "done",
             !.res = Response(404, Null, Null, "Not found", NoInfo)]

\* The await of githubBacking.read(path), which has ended with outcome o:
\* the content, or an exception.
BackingRead(r, o) ==
  LET rq == [reqs[r] EXCEPT !.read = o]
      contentHash == HashPath(rq.path)
  IN  /\ reqs[r].pc = "awaitRead"
      /\ lastOp' = [kind |-> "backingRead", req |-> r]
      /\ IF o.kind = "ok"
           THEN /\ cache' = LRUSet(cache, rq.path, o.text, now)
                /\ lastUsed' = Touch(lastUsed, rq.path)
                /\ lastPut' = Touch(lastPut, rq.path)
                /\ lastSet' = SetRecord(cache, rq.path, o.text, lastUsed, lastPut)
                /\ dht' = UpdateDHT(dht, contentHash, SelfId)
                /\ dhtAdded' = AddedAfter(dhtAdded, dht, contentHash, SelfId)
                /\ lastRecord' = [contentHash |-> contentHash, nodeId |-> SelfId,
                                  before |-> NodesOf(dht, contentHash)]
                /\ stats' = [stats EXCEPT !.bytesServed = @ + Len(o.text)]
                /\ reqs' = [reqs EXCEPT ![r] =
                     [rq EXCEPT !.pc = "done", !.wrote = o.text,
                                !.res = Response(200, "github", Null, o.text, NoInfo)]]
                /\ UNCHANGED dhtCount
           ELSE /\ reqs' = [reqs EXCEPT ![r] = CatchRead(rq)]
                /\ UNCHANGED <<stats, cacheVars, dhtVars>>
      /\ UNCHANGED <<now, githubBacking, reqCount>>
      /\ UNCHANGED <<peerVars, lifeVars, capVars>>

-----------------------------------------------------------------------------
(* start, announcePeer and shutdown *)

\* config.nodeName and config.port || 5650
SelfName == "edge"
DefaultPort == 5650

\* The announcement announcePeer builds.
Announcement ==
  Datagram("object", "peer_announce", SelfId, SelfName, DefaultPort,
           LRUSize(cache), LRUBytes(cache),
           [defined |-> TRUE, requests |-> stats.requests,
            cacheHits |-> stats.cacheHits, uptime |-> now - stats.startTime])

\* announcePeer(): the announcement is sent when the socket is open; on a
\* closed socket send throws, on null the property read throws, and the
\* catch swallows both.
Sent(sock) == sock = "bound"

\* The number of announcements sent.
Sends == Cardinality({i \in 1..Len(lifeLog) : lifeLog[i] = "send"})

\* start() up to its first await: the HTTP server listens, the UDP socket is
\* bound, the periodic timer is scheduled, and announcePeer runs (it has no
\* await of its own).
Start ==
  /\ startPc = "idle"
  /\ server' = "listening"
  /\ discoverySocket' = "bound"
  /\ announceInterval' = "active"
  /\ lastAnnounce' = Announcement
  /\ lifeLog' = lifeLog \o <<"start", "listen", "bind", "setInterval", "send">>
  /\ startPc' = "awaitAnnounce"
  /\ lastOp' = [kind |-> "start", req |-> 0]
  /\ UNCHANGED <<now, githubBacking, stats, reqs, reqCount>>
  /\ UNCHANGED <<cacheVars, dhtVars, peerVars, capVars>>

\* start() after each of its awaits: syncFromGitHub is called when a backing
\* store is configured (it loads nothing), then the node is ready.
StartResumed ==
  /\ startPc \in {"awaitAnnounce", "awaitSync"}
  /\ startPc' = IF startPc = "awaitAnnounce" /\ githubBacking
                  THEN "awaitSync" ELSE "ready"
  /\ lastOp' = [kind |-> "start", req |-> 0]
  /\ UNCHANGED <<server, discoverySocket, announceInterval, lastAnnounce, lifeLog>>
  /\ UNCHANGED <<now, githubBacking, stats, reqs, reqCount>>
  /\ UNCHANGED <<cacheVars, dhtVars, peerVars, capVars>>

\* The periodic timer fires: announcePeer().
AnnounceTimer ==
  /\ announceInterval = "active"
  /\ Sends < MaxAnnounces
  /\ IF Sent(discoverySocket)
       THEN /\ lastAnnounce' = Announcement
            /\ lifeLog' = Append(lifeLog, "send")
       ELSE UNCHANGED <<lastAnnounce, lifeLog>>
  /\ lastOp' = [kind |-> "announcePeer", req |-> 0]
  /\ UNCHANGED <<server, discoverySocket, announceInterval, startPc>>
  /\ UNCHANGED <<now, githubBacking, stats, reqs, reqCount>>
  /\ UNCHANGED <<cacheVars, dhtVars, peerVars, capVars>>

\* The effects of shutdown(), in the order of its statements: each of the
\* three fields is acted on when it is not null.
ShutdownEffects ==
  (IF announceInterval # Null THEN <<"clearInterval">> ELSE <<>>)
  \o (IF server # Null THEN <<"serverClose">> ELSE <<>>)
  \o (IF discoverySocket # Null THEN <<"socketClose">> ELSE <<>>)

\* shutdown(); it has no await.
Shutdown ==
  /\ ~Includes(lifeLog, "shutdown")
  /\ announceInterval' = IF announceInterval # Null THEN "cleared" ELSE Null
  /\ server' = IF server # Null THEN "closed" ELSE Null
  /\ discoverySocket' = IF discoverySocket # Null THEN "closed" ELSE Null
  /\ lifeLog' = lifeLog \o <<"shutdown">> \o ShutdownEffects
  /\ lastOp' = [kind |-> "shutdown", req |-> 0]
  /\ UNCHANGED <<startPc, lastAnnounce>>
  /\ UNCHANGED <<now, githubBacking, stats, reqs, reqCount>>
  /\ UNCHANGED <<cacheVars, dhtVars, peerVars, capVars>>

-----------------------------------------------------------------------------
(* The audit log: class AuditLog *)

\* null where a hash is expected.
NullHash == <<>>

\* JSON.stringify of the five hashed fields of an entry, in the order the
\* code lists them.
EntryJson(e) ==
  <<e.timestamp, e.sequence, e.operation, e.data, e.previousHash>>

\* createHash('sha256').update(json).digest('hex'): distinct texts have
\* distinct digests.
Sha256(json) == <<"sha256", json>>

\* new AuditLog(logPath).
NewAuditLog(logPath) ==
  [logPath |-> logPath, entries |-> <<>>, hashChain |-> NullHash,
   seenHashes |-> {}, calls |-> <<>>]

\* The entry append builds before its await.
NewEntry(a, operation, data, ts) ==
  LET e == [timestamp |-> ts, sequence |-> Len(a.entries),
            operation |-> operation, data |-> data,
            previousHash |-> a.hashChain]
  IN  [timestamp |-> e.timestamp, sequence |-> e.sequence,
       operation |-> e.operation, data |-> e.data,
       previousHash |-> e.previousHash, hash |-> Sha256(EntryJson(e))]

\* Mutant of AppendCommit: hashChain is not moved to the new entry.
AppendCommitNoChain(a, entry) ==
  [a EXCEPT !.entries = Append(@, entry),
            !.seenHashes = @ \cup {entry.hash}]

\* The update of the in-memory state at the end of append.
AppendCommit(a, entry) ==
  [a EXCEPT !.entries = Append(@, entry),
            !.seenHashes = @ \cup {entry.hash},
            !.hashChain = entry.hash]

\* The append calls that await their file write.
InFlight(a) == {c \in 1..Len(a.calls) : a.calls[c].pc = "awaitAppendFile"}

\* append(operation, data) up to its await, its throw or its return.
AppendCall(a, operation, data, ts) ==
  LET entry == NewEntry(a, operation, data, ts)
      call(pc) == [pc |-> pc, entry |-> entry]
  IN  IF entry.hash \in a.seenHashes
        THEN [a EXCEPT !.calls = Append(@, call("thrown"))]
      ELSE IF a.logPath # Null
        THEN [a EXCEPT !.calls = Append(@, call("awaitAppendFile"))]
      ELSE [AppendCommit(a, entry) EXCEPT !.calls = Append(@, call("returned"))]

\* The await of appendFile in call c, which has ended well or thrown.
AppendResume(a, c, ok) ==
  IF ok THEN [AppendCommit(a, a.calls[c].entry) EXCEPT !.calls[c].pc = "returned"]
  ELSE [a EXCEPT !.calls[c].pc = "thrown"]

\* verifyIntegrity() from index i (counted from 1) on, given the hash of the
\* entry before.
RECURSIVE VerifyFrom(_, _, _)
VerifyFrom(entries, i, previousHash) ==
  IF i > Len(entries)
    THEN [valid |-> TRUE, error |-> Null, index |-> Len(entries),
          finalHash |-> previousHash]
  ELSE LET entry == entries[i]
       IN  IF entry.sequence # i - 1
             THEN [valid |-> FALSE, error |-> "Sequence mismatch",
                   index |-> i - 1, finalHash |-> NullHash]
           ELSE IF entry.previousHash # previousHash
             THEN [valid |-> FALSE, error |-> "Hash chain broken",
                   index |-> i - 1, finalHash |-> NullHash]
           ELSE IF Sha256(EntryJson(entry)) # entry.hash
             THEN [valid |-> FALSE, error |-> "Hash mismatch",
                   index |-> i - 1, finalHash |-> NullHash]
           ELSE VerifyFrom(entries, i + 1, entry.hash)

VerifyIntegrity(a) == VerifyFrom(a.entries, 1, NullHash)

\* A call of append.
AuditAppend(operation, data, ts) ==
  /\ audit' = AppendCall(audit, operation, data, ts)
  /\ UNCHANGED <<nodeVars, limiter, graph, loader>>

\* The file write of call c ends.
AuditAppendFileDone(c, ok) ==
  /\ c \in InFlight(audit)
  /\ audit' = AppendResume(audit, c, ok)
  /\ UNCHANGED <<nodeVars, limiter, graph, loader>>

-----------------------------------------------------------------------------
(* The rate limiter: class RateLimiter *)

\* Token amounts are counted in fifths of a token, so that the default
\* burstSize, maxRequests * 1.2, is a whole number of units.
TokenUnit == 5

DefaultMaxRequests == 100
DefaultWindowMs == 1000

\* An options object without properties.
EmptyOptions ==
  [maxRequests |-> UndefinedNum, windowMs |-> UndefinedNum,
   burstSize |-> UndefinedNum]

\* new RateLimiter(options); burstSize is kept in units.
NewRateLimiter(options) ==
  LET maxRequests == OrNumber(options.maxRequests, DefaultMaxRequests)
  IN  [maxRequests |-> maxRequests,
       windowMs |-> OrNumber(options.windowMs, DefaultWindowMs),
       burstSize |-> IF options.burstSize # UndefinedNum /\ options.burstSize # 0
                       THEN options.burstSize * TokenUnit
                       ELSE maxRequests * 6,
       clients |-> <<>>,
       stats |-> [totalRequests |-> 0, totalRejections |-> 0, clientsTracked |-> 0],
       clock |-> 0, elapses |-> 0, calls |-> 0,
       last |-> [op |-> "constructor", clientId |-> Null, result |-> FALSE,
                 available |-> 0]]

Min(a, b) == IF a <= b THEN a ELSE b

\* The state of a client check has not seen before.
NewClient(l, ts) ==
  [tokens |-> l.maxRequests * TokenUnit, lastRefill |-> ts, totalRequests |-> 0,
   rejections |-> 0, firstSeen |-> ts, lastSeen |-> ts]

\* The refill of check: one maxRequests per whole window elapsed, capped at
\* burstSize.
Refill(l, client, ts) ==
  LET elapsed == ts - client.lastRefill
  IN  IF elapsed >= l.windowMs
        THEN [client EXCEPT !.tokens =
                Min(l.burstSize, @ + (elapsed \div l.windowMs) * l.maxRequests * TokenUnit),
                            !.lastRefill = ts]
        ELSE client

\* check(clientId) at time ts.
Check(l, clientId, ts) ==
  LET isNew == clientId \notin DOMAIN l.clients
      c0 == IF isNew THEN NewClient(l, ts) ELSE l.clients[clientId]
      c1 == Refill(l, [c0 EXCEPT !.lastSeen = ts], ts)
      allowed == c1.tokens >= TokenUnit
      c2 == IF allowed
              THEN [c1 EXCEPT !.tokens = @ - TokenUnit, !.totalRequests = @ + 1]
              ELSE [c1 EXCEPT !.rejections = @ + 1]
  IN  [l EXCEPT !.clients = [k \in DOMAIN l.clients \cup {clientId} |->
                               IF k = clientId THEN c2 ELSE l.clients[k]],
                !.stats = [@ EXCEPT !.totalRequests = @ + 1,
                                    !.clientsTracked = IF isNew THEN @ + 1 ELSE @,
                                    !.totalRejections = IF allowed THEN @ ELSE @ + 1],
                !.last = [op |-> "check", clientId |-> clientId,
                          result |-> allowed, available |-> c1.tokens]]

\* reset(clientId) at time ts.
Reset(l, clientId, ts) ==
  [l EXCEPT !.clients = IF clientId \in DOMAIN l.clients
                          THEN [@ EXCEPT ![clientId] =
                                  [@ EXCEPT !.tokens = l.maxRequests * TokenUnit,
                                            !.lastRefill = ts]]
                          ELSE @,
            !.last = [op |-> "reset", clientId |-> clientId, result |-> FALSE,
                      available |-> 0]]

\* cleanup() at time ts: the clients not seen for more than 60 windows go.
Cleanup(l, ts) ==
  LET stale == {k \in DOMAIN l.clients : ts - l.clients[k].lastSeen > l.windowMs * 60}
  IN  [l EXCEPT !.clients = [k \in DOMAIN l.clients \ stale |-> l.clients[k]],
                !.stats.clientsTracked = @ - Cardinality(stale),
                !.last = [op |-> "cleanup", clientId |-> Null, result |-> FALSE,
                          available |-> 0]]

-----------------------------------------------------------------------------
(* The dependency graph: class DependencyGraph *)

CapabilityIds == {"CAP-A", "CAP-B", "CAP-C"}
PackageIds == {"crypto"}

\* r.startsWith('CAP-'), for the names of the model.
StartsWithCap(r) == r \in CapabilityIds

\* new DependencyGraph(): the nodes Map, and the results of the last
\* queries made on it.
NewDependencyGraph ==
  [nodes |-> <<>>, adds |-> 0, queried |-> FALSE, order |-> <<>>,
   validation |-> [valid |-> TRUE, error |-> Null, cycle |-> <<>>]]

NewGraphNode(id) == [key |-> id, requires |-> <<>>, requiredBy |-> <<>>]

\* nodes with an empty node for id if it has none.
EnsureNode(nodes, id) ==
  IF MapHas(nodes, id) THEN nodes ELSE MapSet(nodes, id, NewGraphNode(id))

\* The loop of addNode over node.requires that updates the reverse
\* dependencies.
RECURSIVE AddReverse(_, _, _)
AddReverse(nodes, id, deps) ==
  IF deps = <<>> THEN nodes
  ELSE LET n1 == EnsureNode(nodes, Head(deps))
           depNode == MapGet(n1, Head(deps))
           n2 == IF Includes(depNode.requiredBy, id) THEN n1
                 ELSE MapSet(n1, Head(deps),
                             [depNode EXCEPT !.requiredBy = Append(@, id)])
       IN  AddReverse(n2, id, Tail(deps))

\* addNode(id, requires).
AddNode(nodes, id, requires) ==
  LET n1 == EnsureNode(nodes, id)
      deps == SelectSeq(requires, StartsWithCap)
      n2 == MapSet(n1, id, [MapGet(n1, id) EXCEPT !.requires = deps])
  IN  AddReverse(n2, id, deps)

\* visit(nodeId) of getTopologicalOrder, and its loops over node identifiers.
RECURSIVE Visit(_, _, _)
RECURSIVE VisitAll(_, _, _)
Visit(nodes, st, nodeId) ==
  IF nodeId \in st.visited THEN st
  ELSE LET s1 == [st EXCEPT !.visited = @ \cup {nodeId}]
           s2 == VisitAll(nodes, s1, MapGet(nodes, nodeId).requires)
       IN  [s2 EXCEPT !.order = Append(@, nodeId)]
VisitAll(nodes, st, ids) ==
  IF ids = <<>> THEN st
  ELSE VisitAll(nodes, Visit(nodes, st, Head(ids)), Tail(ids))

\* Mutant of GetTopologicalOrder: the keys in insertion order.
GetTopologicalOrderUnsorted(nodes) == MapKeys(nodes)

\* getTopologicalOrder().
GetTopologicalOrder(nodes) ==
  VisitAll(nodes, [visited |-> {}, order |-> <<>>], MapKeys(nodes)).order

\* dfs(nodeId) of detectCycle and its loop over node.requires: the sets and
\* the path after the call, and the cycle returned (<<>> for null).
RECURSIVE Dfs(_, _, _)
RECURSIVE DfsRequires(_, _, _)
Dfs(nodes, st, nodeId) ==
  LET s1 == [visited |-> st.visited \cup {nodeId},
             recursionStack |-> st.recursionStack \cup {nodeId},
             path |-> Append(st.path, nodeId)]
      r == DfsRequires(nodes, s1, MapGet(nodes, nodeId).requires)
  IN  IF r.cycle # <<>> THEN r
      ELSE [st |-> [visited |-> r.st.visited,
                    recursionStack |-> r.st.recursionStack \ {nodeId},
                    path |-> SubSeq(r.st.path, 1, Len(r.st.path) - 1)],
            cycle |-> <<>>]
DfsRequires(nodes, st, deps) ==
  IF deps = <<>> THEN [st |-> st, cycle |-> <<>>]
  ELSE IF Head(deps) \notin st.visited
    THEN LET r == Dfs(nodes, st, Head(deps))
         IN  IF r.cycle # <<>> THEN r ELSE DfsRequires(nodes, r.st, Tail(deps))
  ELSE IF Head(deps) \in st.recursionStack
    THEN [st |-> st,
          cycle |-> SubSeq(st.path,
                           CHOOSE i \in 1..Len(st.path) : st.path[i] = Head(deps),
                           Len(st.path))]
  ELSE DfsRequires(nodes, st, Tail(deps))

\* The loop of detectCycle over this.nodes.keys().
RECURSIVE DetectFrom(_, _, _)
DetectFrom(nodes, st, ids) ==
  IF ids = <<>> THEN <<>>
  ELSE IF Head(ids) \notin st.visited
    THEN LET r == Dfs(nodes, st, Head(ids))
         IN  IF r.cycle # <<>> THEN r.cycle ELSE DetectFrom(nodes, r.st, Tail(ids))
  ELSE DetectFrom(nodes, st, Tail(ids))

\* Mutant of DetectCycle: only the first node is searched from.
DetectCycleFirstOnly(nodes) ==
  DetectFrom(nodes, [visited |-> {}, recursionStack |-> {}, path |-> <<>>],
             IF nodes = <<>> THEN <<>> ELSE <<nodes[1].key>>)

\* detectCycle(): the cycle path, or <<>> for null.
DetectCycle(nodes) ==
  DetectFrom(nodes, [visited |-> {}, recursionStack |-> {}, path |-> <<>>],
             MapKeys(nodes))

\* validate().
Validate(nodes) ==
  IF \E i \in 1..Len(nodes) : \E j \in 1..Len(nodes[i].requires) :
       ~MapHas(nodes, nodes[i].requires[j])
    THEN [valid |-> FALSE, error |-> "Missing dependency", cycle |-> <<>>]
  ELSE LET cycle == DetectCycle(nodes)
       IN  IF cycle # <<>>
             THEN [valid |-> FALSE, error |-> "Dependency cycle detected",
                   cycle |-> cycle]
             ELSE [valid |-> TRUE, error |-> Null, cycle |-> <<>>]

\* A call of addNode.
GraphAddNode(id, requires) ==
  /\ graph' = [graph EXCEPT !.nodes = AddNode(@, id, requires),
                            !.adds = @ + 1, !.queried = FALSE,
                            !.order = <<>>,
                            !.validation = NewDependencyGraph.validation]
  /\ UNCHANGED <<nodeVars, audit, limiter, loader>>

\* Calls of getTopologicalOrder and validate on the graph as it stands.
GraphQuery ==
  /\ ~graph.queried
  /\ graph' = [graph EXCEPT !.queried = TRUE,
                            !.order = GetTopologicalOrder(graph.nodes),
                            !.validation = Validate(graph.nodes)]
  /\ UNCHANGED <<nodeVars, audit, limiter, loader>>

-----------------------------------------------------------------------------
(* The capability loader: class CapabilityLoader *)

\* new CapabilityLoader(), with what discoverCapabilities finds (manifests,
\* a Map from capability id to its requires), the configuration handed to
\* loadFromConfig and the calls in progress: stack holds the loadCapability
\* calls, innermost last, each with where it stands and the index of the
\* next element of its requires; next is the index of the next element of
\* config.capabilities.
NewCapabilityLoader ==
  [manifests |-> <<>>, config |-> <<>>, capabilities |-> <<>>,
   graph |-> <<>>, stack |-> <<>>, next |-> 0, pc |-> "idle",
   error |-> Null, instantiated |-> <<>>]

\* The requires of the manifest discovered for id.
RequiresOf(l, id) == MapGet(l.manifests, id).requires

\* A call of loadCapability(id).
Call(l, id) == [l EXCEPT !.stack = Append(@, [id |-> id, pc |-> "called", i |-> 1])]

\* The return of the innermost loadCapability call.
Return(l) == [l EXCEPT !.stack = SubSeq(@, 1, Len(@) - 1)]

\* An exception leaves every call in progress, loadFromConfig included.
Throw(l, error) == [l EXCEPT !.stack = <<>>, !.pc = "thrown", !.error = error]

\* The end of loadCapability(id): the capability is instantiated and
\* stored, and its node is added to the graph; instantiated records which
\* capabilities were loaded at that moment.
Instantiate(l, id) ==
  [l EXCEPT !.capabilities = Append(@, id),
            !.graph = AddNode(@, id, RequiresOf(l, id)),
            !.instantiated = Append(@, [id |-> id, loaded |-> l.capabilities])]

\* The next step of the innermost loadCapability call.
LoadCapabilityStep(l) ==
  LET f == l.stack[Len(l.stack)]
      top(g) == [l EXCEPT !.stack[Len(l.stack)] = g]
  IN  CASE f.pc = "called" ->
             IF Includes(l.capabilities, f.id) THEN Return(l)
             ELSE top([f EXCEPT !.pc = "discovering"])
        [] f.pc = "discovering" ->
             IF ~MapHas(l.manifests, f.id) THEN Throw(l, "Capability not found")
             ELSE top([f EXCEPT !.pc = "requires"])
        [] f.pc = "requires" ->
             IF f.i > Len(RequiresOf(l, f.id)) THEN Return(Instantiate(l, f.id))
             ELSE IF StartsWithCap(RequiresOf(l, f.id)[f.i])
               THEN Call(top([f EXCEPT !.i = @ + 1]), RequiresOf(l, f.id)[f.i])
             ELSE top([f EXCEPT !.i = @ + 1])

\* The next step of the loop of loadFromConfig, and the validation after it.
LoadFromConfigStep(l) ==
  IF l.next > Len(l.config)
    THEN IF Validate(l.graph).valid THEN [l EXCEPT !.pc = "returned"]
         ELSE Throw(l, "Dependency graph invalid")
  ELSE IF l.config[l.next].enabled
    THEN Call([l EXCEPT !.next = @ + 1], l.config[l.next].id)
  ELSE [l EXCEPT !.next = @ + 1]

\* A call of loadFromConfig(config).
LoadFromConfig ==
  /\ loader.pc = "idle"
  /\ loader' = [loader EXCEPT !.pc = "loading", !.next = 1]
  /\ UNCHANGED <<nodeVars, audit, limiter, graph>>

\* The call of loadFromConfig goes on by one step; the calls of
\* loadCapability nest no deeper than depth.
LoaderStep(depth) ==
  LET l == IF loader.stack = <<>> THEN LoadFromConfigStep(loader)
           ELSE LoadCapabilityStep(loader)
  IN  /\ loader.pc = "loading"
      /\ Len(l.stack) <= depth
      /\ loader' = l
      /\ UNCHANGED <<nodeVars, audit, limiter, graph>>

-----------------------------------------------------------------------------
(* SpecCache: one LRUCache under every sequence of its operations *)

\* new SovereignCDNNode(config): the state after construction, given the
\* cache's limits and whether config.githubBacking is set.
InitNodeWith(maxSize, maxBytes, backing) ==
  /\ githubBacking = backing
  /\ cache = NewLRUCache(maxSize, maxBytes)
  /\ now = 0
  /\ lastUsed = <<>>
  /\ lastPut = <<>>
  /\ lastSet = NoSet
  /\ dht = <<>>
  /\ dhtAdded = [h \in Hashes |-> <<>>]
  /\ dhtCount = 0
  /\ lastRecord = NoRecord
  /\ peers = <<>>
  /\ newPeerLog = <<>>
  /\ msgCount = 0
  /\ lastMsg = NoMsg
  /\ stats = [requests |-> 0, cacheHits |-> 0, cacheMisses |-> 0,
              bytesServed |-> 0, peerRequests |-> 0, peerHits |-> 0,
              githubFallbacks |-> 0, startTime |-> 0]
  /\ reqs = [r \in 1..MaxRequests |-> NewRequest]
  /\ reqCount = 0
  /\ lastOp = [kind |-> "constructor", req |-> 0]
  /\ server = Null
  /\ discoverySocket = Null
  /\ announceInterval = Null
  /\ startPc = "idle"
  /\ lastAnnounce = NoMsg.data
  /\ lifeLog = <<>>

\* The node, and beside it the capability objects after construction with
\* their defaults.
InitWith(maxSize, maxBytes, backing) ==
  /\ InitNodeWith(maxSize, maxBytes, backing)
  /\ audit = NewAuditLog("audit.log")
  /\ limiter = NewRateLimiter(EmptyOptions)
  /\ graph = NewDependencyGraph
  /\ loader = NewCapabilityLoader

InitCache ==
  \E maxSize \in 1..MaxCacheSize, maxBytes \in 2..MaxCacheBytes :
    InitWith(maxSize, maxBytes, FALSE)

NextCache ==
  \/ \E key \in Paths : CacheGet(key)
  \/ \E key \in Paths, value \in Contents : CacheSet(key, value)
  \/ \E key \in Paths : CacheHas(key)
  \/ CacheClear

SpecCache == InitCache /\ [][NextCache]_vars

-----------------------------------------------------------------------------
(* Claims about the Eviction Cache, checked under SpecCache *)

Range(seq) == {seq[i] : i \in 1..Len(seq)}

IndexOf(seq, x) == CHOOSE i \in 1..Len(seq) : seq[i] = x

RECURSIVE SumSizes(_)
SumSizes(m) == IF m = <<>> THEN 0 ELSE m[1].size + SumSizes(Tail(m))

\* The key of S whose most recent successful get or set is the oldest.
Oldest(S, used) ==
  CHOOSE k \in S : \A k2 \in S : IndexOf(used, k) <= IndexOf(used, k2)

\* C1: after every set and get on a cache built with maxSize = maxItems
\* (maxItems >= 1), the number of entries is at most maxItems.
C1_CountWithinMaxItems == Len(cache.cache) <= cache.maxSize

\* A set of a new key on a full cache has acted, and the cache is full again.
C1_Witness ==
  /\ lastSet.key # Null
  /\ lastSet.key \notin Range(lastSet.before)
  /\ Len(lastSet.before) = cache.maxSize
  /\ Len(cache.cache) = cache.maxSize

\* C2: after every set, with values of any size, currentBytes is at most
\* maxBytes.
C2_BytesWithinMaxBytes == cache.currentBytes <= cache.maxBytes

\* C3: currentBytes equals the sum of the recorded sizes of the entries in
\* the cache; it is 0 when the cache is empty and never negative.
C3_BytesEqualSumOfSizes ==
  /\ cache.currentBytes = SumSizes(cache.cache)
  /\ cache.cache = <<>> => cache.currentBytes = 0
  /\ cache.currentBytes >= 0

\* A set has overwritten a resident key and evicted another entry, and
\* the cache holds several entries of positive size.
C3_Witness ==
  /\ lastSet.key \in Range(lastSet.before)
  /\ lastSet.victims # <<>>
  /\ Len(cache.cache) >= 2
  /\ \A i \in 1..Len(cache.cache) : cache.cache[i].size > 0

\* The case of C4: capacity 2, put(a), put(b), get(a), put(c), the three
\* values fitting within maxBytes together.
C4_Case(a, b, c) ==
  /\ cache.maxSize = 2
  /\ lastSet.key = c
  /\ lastSet.put = <<a, b>>
  /\ lastSet.used = <<b, a>>
  /\ lastSet.before = <<b, a>>
  /\ lastSet.bytes + ByteLength(lastSet.value) <= cache.maxBytes

\* C4: every victim of a set is the resident entry whose most recent
\* successful get or set is the oldest; with capacity 2, put(a), put(b),
\* get(a), put(c) evicts b and keeps a.
C4_EvictsLeastRecentlyUsed ==
  /\ \A i \in 1..Len(lastSet.victims) :
       lastSet.victims[i] =
         Oldest(lastSet.residents \ {lastSet.victims[j] : j \in 1..(i-1)},
                lastSet.used)
  /\ \A a \in Paths : \A b \in Paths \ {a} : \A c \in Paths \ {a, b} :
       C4_Case(a, b, c) => lastSet.victims = <<b>> /\ lastSet.after = <<a, c>>

\* put(A), put(B), get(A), put(C) on a cache of capacity 2 has happened.
C4_Witness == C4_Case("/a.txt", "/b.txt", "/c.txt")

\* C21: after set(k, v) with a value whose byte size alone exceeds maxBytes,
\* the cache holds exactly the one entry k or no entry at all; it stays so
\* until the next set.
C21_OversizedValueAlone ==
  (lastSet.key # Null /\ ByteLength(lastSet.value) > cache.maxBytes)
    => /\ lastSet.after \in {<<lastSet.key>>, <<>>}
       /\ MapKeys(cache.cache) \in {<<lastSet.key>>, <<>>}

\* An oversized value has been set on a cache that held two other entries
\* and had room for a third.
C21_Witness ==
  /\ ByteLength(lastSet.value) > cache.maxBytes
  /\ Len(lastSet.before) = 2
  /\ lastSet.key \notin Range(lastSet.before)
  /\ cache.maxSize = 3
  /\ MapKeys(cache.cache) = <<lastSet.key>>

\* The last set overwrote a resident key with a value that fits within
\* maxBytes together with the other entries.
C22_Case ==
  /\ lastSet.key \in Range(lastSet.before)
  /\ lastSet.bytes + ByteLength(lastSet.value) <= cache.maxBytes

\* C22: set(k, v) on a resident key k, v fitting within maxBytes together
\* with the other entries, evicts no entry even at maxItems, leaves the
\* entry count unchanged, makes k the most recently used entry (the keys
\* are those before the call with k moved to the end), and k maps to v
\* for as long as it stays.
C22_OverwriteRemovesOldFirst ==
  C22_Case
    => /\ lastSet.victims = <<>>
       /\ Len(lastSet.after) = Len(lastSet.before)
       /\ lastSet.after = Touch(lastSet.before, lastSet.key)
       /\ MapHas(cache.cache, lastSet.key)
            => MapGet(cache.cache, lastSet.key).value = lastSet.value

\* A cache at maxItems with several entries has had its oldest key
\* overwritten, and still holds it.
C22_Witness ==
  /\ C22_Case
  /\ Len(lastSet.before) = cache.maxSize
  /\ cache.maxSize >= 2
  /\ lastSet.before[1] = lastSet.key
  /\ MapKeys(cache.cache) = lastSet.after

-----------------------------------------------------------------------------
(* SpecHas: one LRUCache of capacity HasCacheSize under every sequence of   *)
(* its operations, each recorded in lastOp                                  *)

HasCacheSize == 2   \* maxSize
HasCacheBytes == 3  \* maxBytes

\* The record of a cache operation in lastOp.
CacheOp(kind) == [kind |-> kind, req |-> 0]

InitHas == InitWith(HasCacheSize, HasCacheBytes, FALSE)

NextHas ==
  \/ \E key \in Paths : CacheGetAs(key, CacheOp("get"))
  \/ \E key \in Paths, value \in Contents : CacheSetAs(key, value, CacheOp("set"))
  \/ \E key \in Paths : CacheHasAs(key, CacheOp("has"))
  \/ CacheClearAs(CacheOp("clear"))

SpecHas == InitHas /\ [][NextHas]_vars

-----------------------------------------------------------------------------
(* Claims about LRUCache.has, checked under SpecHas *)

\* C15: a call of has changes nothing of the cache (entries, currentBytes,
\* order of the Map); and when a set follows a has, the entries it evicts
\* are still those whose most recent successful get or set is the oldest.
C15_HasChangesNothing ==
  /\ [][lastOp'.kind = "has" => cache' = cache]_vars
  /\ [](lastSet.prev = "has" =>
         \A i \in 1..Len(lastSet.victims) :
           lastSet.victims[i] =
             Oldest(lastSet.residents \ {lastSet.victims[j] : j \in 1..(i-1)},
                    lastSet.used))

\* put(A), put(B), a call of has, put(C) on a cache of capacity 2 has
\* happened and has evicted A.
C15_Witness ==
  /\ lastSet.prev = "has"
  /\ lastSet.put = <<"/a.txt", "/b.txt">>
  /\ lastSet.used = <<"/a.txt", "/b.txt">>
  /\ lastSet.key = "/c.txt"
  /\ lastSet.victims = <<"/a.txt">>

-----------------------------------------------------------------------------
(* SpecDHT: the location table under every sequence of updateDHT calls *)

\* The constructor's defaults: cacheSize 500, maxCacheBytes 100 MB.
DefaultCacheSize == 500
DefaultCacheBytes == 104857600

\* The content addresses recorded under in SpecDHT.
DhtAddresses == {HashPath("/a.txt"), HashPath("/b.txt")}

InitDHT == InitWith(DefaultCacheSize, DefaultCacheBytes, FALSE)

NextDHT == \E contentHash \in DhtAddresses, nodeId \in NodeIds :
             RecordDHT(contentHash, nodeId)

SpecDHT == InitDHT /\ [][NextDHT]_vars

-----------------------------------------------------------------------------
(* Claims about the Location Hints, checked under SpecDHT *)

NoDuplicate(seq) == \A i, j \in 1..Len(seq) : seq[i] = seq[j] => i = j

\* The last n elements of seq, all of it when it is shorter.
LastN(seq, n) ==
  IF Len(seq) <= n THEN seq ELSE SubSeq(seq, Len(seq) - n + 1, Len(seq))

\* C8: every location entry holds at most 3 node identifiers, the most
\* recently added ones, distinct, in insertion order (the oldest dropped
\* first); recording n1..n5 on one address leaves exactly [n3, n4, n5].
C8_ReplicationBound ==
  \A h \in Hashes :
    /\ Len(NodesOf(dht, h)) <= 3
    /\ NodesOf(dht, h) = LastN(dhtAdded[h], 3)
    /\ NoDuplicate(NodesOf(dht, h))
    /\ dhtAdded[h] = <<"n1", "n2", "n3", "n4", "n5">>
         => dht[h] = <<"n3", "n4", "n5">>

\* Exactly n1..n5 have been recorded on one address, in five calls.
C8_Witness ==
  /\ dhtCount = 5
  /\ dhtAdded[HashPath("/a.txt")] = <<"n1", "n2", "n3", "n4", "n5">>

\* C9: no location entry contains the same node identifier twice, and
\* recording an identifier already present leaves the entry's sequence
\* unchanged in length and order.
C9_NoDuplicateNoRefresh ==
  /\ \A h \in DOMAIN dht : NoDuplicate(dht[h])
  /\ lastRecord.nodeId \in Range(lastRecord.before)
       => dht[lastRecord.contentHash] = lastRecord.before

\* The oldest identifier of an entry of three has been recorded again.
C9_Witness ==
  /\ Len(lastRecord.before) = 3
  /\ lastRecord.nodeId = lastRecord.before[1]

-----------------------------------------------------------------------------
(* SpecPeers: the peer registry under every sequence of datagrams *)

DiscoveryPeerIds == {"n1", "n2"}

\* The properties of an announce: all present, or all absent.
FullAnnounce(type, nodeId) ==
  Datagram("object", type, nodeId, "edge", 5650, 2, 3,
           [defined |-> TRUE, requests |-> 1, cacheHits |-> 0, uptime |-> 0])
BareAnnounce(type, nodeId) ==
  Datagram("object", type, nodeId, Undefined, UndefinedNum, UndefinedNum,
           UndefinedNum, NoStats)

\* The datagrams received: text that is not JSON, the JSON null, a JSON
\* scalar or array, and objects of every type and node identifier.
Datagrams ==
  {Datagram(j, Undefined, Undefined, Undefined, UndefinedNum, UndefinedNum,
            UndefinedNum, NoStats) : j \in {"invalid", "null", "scalar"}}
  \cup {FullAnnounce(t, n) : t \in {"peer_announce", "peer_leave", Undefined},
                             n \in DiscoveryPeerIds \cup {SelfId, Undefined}}
  \cup {BareAnnounce(t, n) : t \in {"peer_announce", "peer_leave", Undefined},
                             n \in DiscoveryPeerIds \cup {SelfId, Undefined}}

Rinfos == {[address |-> "10.0.0.1"], [address |-> "10.0.0.2"]}

InitPeers == InitWith(DefaultCacheSize, DefaultCacheBytes, FALSE)

NextPeers ==
  \/ \E data \in Datagrams, rinfo \in Rinfos : HandlePeerMessage(data, rinfo)
  \/ Tick

SpecPeers == InitPeers /\ [][NextPeers]_vars

-----------------------------------------------------------------------------
(* Claims about the Discovery Protocol, checked under SpecPeers *)

\* A datagram of the expected shape: a JSON object of type peer_announce
\* with a node identifier.
ExpectedShape(data) ==
  /\ data.json = "object"
  /\ data.type = "peer_announce"
  /\ IsString(data.nodeId)

\* C10: a datagram that is not JSON, or is JSON of the wrong shape (not an
\* object, a different type, a peer_announce lacking a node identifier),
\* leaves the Peer Registry unchanged and raises no exception.
C10_MalformedGossipIgnored ==
  (lastMsg.data.json # "none" /\ ~ExpectedShape(lastMsg.data))
    => ~lastMsg.changed /\ ~lastMsg.raised

\* The number of 'New peer' log lines that name nodeId.
NewPeerEvents(nodeId) ==
  Cardinality({i \in 1..Len(newPeerLog) : newPeerLog[i] = nodeId})

\* C16: over any sequence of datagrams, the 'New peer' line is logged
\* exactly once for each key that has entered the Peer Registry, and for
\* nothing else.
C16_NewPeerEventOncePerIdentifier ==
  /\ \A nodeId \in DOMAIN peers : NewPeerEvents(nodeId) = 1
  /\ Range(newPeerLog) \subseteq DOMAIN peers

\* C17: the node's own identifier is never a key of the Peer Registry, and
\* a peer_announce carrying it leaves the registry unchanged.
C17_SelfNeverRegistered ==
  /\ SelfId \notin DOMAIN peers
  /\ (lastMsg.data.type = "peer_announce" /\ lastMsg.data.nodeId = SelfId)
       => ~lastMsg.changed

\* The node has received its own announce after registering a peer.
C17_Witness ==
  /\ lastMsg.data.json = "object"
  /\ lastMsg.data.type = "peer_announce"
  /\ lastMsg.data.nodeId = SelfId
  /\ DOMAIN peers # {}

-----------------------------------------------------------------------------------------------------------------------------------------------------
(* SpecNode: one node driven by its event handlers alone, HTTP requests and *)
(* discovery datagrams, with a backing store or without                     *)

NodeCacheSize == 2   \* config.cacheSize
NodeCacheBytes == 3  \* config.maxCacheBytes
MaxNodeMessages == 1 \* datagrams received

NodePaths == {"/a.txt", "/b.txt"}
NodeContents == {"", "x", "yy"}
NodePeerIds == {"n1", "n2"}

\* How a read of the backing store ends: the content, or an exception.
ReadOutcomes ==
  {[kind |-> "ok", ok |-> TRUE, text |-> c] : c \in NodeContents}
  \cup {[kind |-> "error", ok |-> FALSE, text |-> Null]}

InitNode ==
  \E backing \in BOOLEAN :
    InitWith(OrNumber(NodeCacheSize, DefaultCacheSize),
             OrNumber(NodeCacheBytes, DefaultCacheBytes), backing)

NextNode ==
  \/ \E path \in NodePaths \cup AdminPaths : HandleRequest(path)
  \/ \E r \in 1..MaxRequests, o \in ReadOutcomes : BackingRead(r, o)
  \/ \E nodeId \in NodePeerIds :
       /\ msgCount < MaxNodeMessages
       /\ HandlePeerMessage(FullAnnounce("peer_announce", nodeId),
                            [address |-> "10.0.0.1"])

SpecNode == InitNode /\ [][NextNode]_vars

-----------------------------------------------------------------------------
(* SpecMesh: one node whose location table is also written from outside    *)
(* (updateDHT is a public method), so that the peer tier runs               *)

MaxMeshRequests == 1 \* handleRequest calls
MaxMeshRecords == 3  \* updateDHT calls made from outside the node
MaxMeshMessages == 3 \* datagrams received

MeshPaths == {"/a.txt"}
MeshContents == {"", "x"}
MeshPeerIds == {"n1", "n2", "n3"}

\* How a fetch from a peer ends: a response that is ok with its text, a
\* response of another status, or an exception (timeout, refused connection).
FetchOutcomes ==
  {[kind |-> "ok", ok |-> TRUE, text |-> c] : c \in MeshContents}
  \cup {[kind |-> k, ok |-> FALSE, text |-> Null] : k \in {"status", "error"}}

MeshReadOutcomes ==
  {[kind |-> "ok", ok |-> TRUE, text |-> c] : c \in MeshContents}
  \cup {[kind |-> "error", ok |-> FALSE, text |-> Null]}

InitMesh == InitNode

NextMesh ==
  \/ \E path \in MeshPaths : reqCount < MaxMeshRequests /\ HandleRequest(path)
  \/ \E r \in 1..MaxRequests : PeerAbsent(r)
  \/ \E r \in 1..MaxRequests, o \in FetchOutcomes : PeerFetched(r, o)
  \/ \E r \in 1..MaxRequests, o \in MeshReadOutcomes : BackingRead(r, o)
  \/ \E nodeId \in MeshPeerIds :
       /\ msgCount < MaxMeshMessages
       /\ HandlePeerMessage(FullAnnounce("peer_announce", nodeId),
                            [address |-> "10.0.0.1"])
  \/ \E path \in MeshPaths, nodeId \in MeshPeerIds \cup {SelfId} :
       /\ dhtCount < MaxMeshRecords
       /\ RecordDHT(HashPath(path), nodeId)

SpecMesh == InitMesh /\ [][NextMesh]_vars

-----------------------------------------------------------------------------
(* Claims about the Request Resolution Pipeline *)

\* The peer fetches request rq has issued: those ended and the one in flight.
PeerFetches(rq) == Len(rq.attempts) + (IF rq.pc = "awaitFetch" THEN 1 ELSE 0)

\* C5: a content request whose path is in the cache when handleRequest
\* runs, whatever the cached value, is answered from the cache tier and
\* triggers no peer fetch and no backing-store read.  (SpecNode)
C5_CachedPathServedFromCache ==
  \A r \in 1..MaxRequests :
    (reqs[r].pc # "new" /\ reqs[r].path \notin AdminPaths /\ reqs[r].wasCached)
      => /\ reqs[r].pc = "done"
         /\ reqs[r].res.status = 200
         /\ reqs[r].res.source = "cache"
         /\ PeerFetches(reqs[r]) = 0
         /\ reqs[r].reads = 0

\* Request r missed the cache with no location hint for its path, and the
\* backing store returned content.
C6_Fallback(r) ==
  /\ reqs[r].pc = "done"
  /\ reqs[r].hint = <<>>
  /\ reqs[r].read.kind = "ok"

\* C6: on a cache miss with no location hint, if the backing store returns
\* content X, the response carries X with the backing-store source tag
\* (X-CDN-Source: github), and an identical request made next, with no
\* operation in between, is served X from the cache without a second
\* backing-store read.  (SpecNode)
C6_FallbackThenCache ==
  \A r1, r2 \in 1..MaxRequests :
    C6_Fallback(r1)
      => /\ reqs[r1].res = Response(200, "github", Null, reqs[r1].read.text, NoInfo)
         /\ (/\ reqs[r2].pc # "new"
             /\ reqs[r2].path = reqs[r1].path
             /\ reqs[r2].prev = [kind |-> "backingRead", req |-> r1])
              => /\ reqs[r2].pc = "done"
                 /\ reqs[r2].res = Response(200, "cache", Null,
                                            reqs[r1].read.text, NoInfo)
                 /\ reqs[r2].reads = 0

\* Request r found three location hints, all registered peers, and has
\* fetched from each in turn: the first two fetches failed, the third
\* returned content.
C7_Case(r) ==
  /\ Len(reqs[r].hint) = 3
  /\ Len(reqs[r].attempts) = 3
  /\ \A i \in 1..3 : reqs[r].attempts[i].nodeId = reqs[r].hint[i]
  /\ ~reqs[r].attempts[1].ok
  /\ ~reqs[r].attempts[2].ok
  /\ reqs[r].attempts[3].ok

\* C7: with three registered peers recorded for the path's address, the
\* first two fetches failing and the third returning content, the response
\* has source tag peer and names the third peer, the content is written
\* into the cache, and no backing-store read occurs.  (SpecMesh)
C7_ThirdPeerServes ==
  \A r \in 1..MaxRequests :
    C7_Case(r)
      => /\ reqs[r].pc = "done"
         /\ reqs[r].res = Response(200, "peer", reqs[r].hint[3],
                                   reqs[r].attempts[3].text, NoInfo)
         /\ reqs[r].wrote = reqs[r].attempts[3].text
         /\ reqs[r].reads = 0

-----------------------------------------------------------------------------
(* SpecRace: one node serving two requests that interleave at their awaits, *)
(* with peers, location hints recorded from outside, and a backing store or *)
(* none                                                                     *)

MaxRaceRecords == 2  \* updateDHT calls made from outside the node
MaxRaceMessages == 1 \* datagrams received

RacePaths == {"/a.txt", "/b.txt"}
RaceContents == {"x", "yy"}
RacePeerIds == {"n1", "n2"}

RaceFetchOutcomes ==
  {[kind |-> "ok", ok |-> TRUE, text |-> c] : c \in RaceContents}
  \cup {[kind |-> "error", ok |-> FALSE, text |-> Null]}

RaceReadOutcomes ==
  {[kind |-> "ok", ok |-> TRUE, text |-> c] : c \in RaceContents}
  \cup {[kind |-> "error", ok |-> FALSE, text |-> Null]}

InitRace ==
  \E maxSize \in 1..NodeCacheSize, backing \in BOOLEAN :
    InitWith(maxSize, NodeCacheBytes, backing)

NextRace ==
  \/ \E path \in RacePaths : HandleRequest(path)
  \/ \E r \in 1..MaxRequests : PeerAbsent(r)
  \/ \E r \in 1..MaxRequests, o \in RaceFetchOutcomes : PeerFetched(r, o)
  \/ \E r \in 1..MaxRequests, o \in RaceReadOutcomes : BackingRead(r, o)
  \/ /\ msgCount < MaxRaceMessages
     /\ HandlePeerMessage(FullAnnounce("peer_announce", "n1"),
                          [address |-> "10.0.0.1"])
  \/ \E path \in RacePaths, nodeId \in RacePeerIds \cup {SelfId} :
       /\ dhtCount < MaxRaceRecords
       /\ RecordDHT(HashPath(path), nodeId)

SpecRace == InitRace /\ [][NextRace]_vars

-----------------------------------------------------------------------------
(* Claims about the fallback tier and the races, checked under SpecRace *)
(* where no other specification is named                                 *)

\* Request rq has ended without being answered from the cache.
Missed(rq) ==
  rq.pc = "done" /\ rq.path \notin AdminPaths /\ rq.res.source # "cache"

\* Every peer fetch request rq has made has failed.
AllFetchesFailed(rq) == \A i \in 1..Len(rq.attempts) : ~rq.attempts[i].ok

\* C11: on a node without a backing store, no step of a content request
\* issues a backing-store read; every step that does not answer 200 leaves
\* the cache and the location table as they were; and a request resolved by
\* neither the cache nor a peer ends with 404.
C11_NoBackingStoreNotFound ==
  [][~githubBacking =>
       \A r \in 1..MaxRequests :
         (reqs'[r] # reqs[r] /\ reqs'[r].path \notin AdminPaths) =>
           /\ reqs'[r].reads = 0
           /\ reqs'[r].res.status # 200 => (cache' = cache /\ dht' = dht)
           /\ (reqs'[r].pc = "done" /\ reqs'[r].res.source \notin {"cache", "peer"})
                => reqs'[r].res = Response(404, Null, Null,
                                           "Not found (no backing store)", NoInfo)]_vars

\* Without a backing store, a request has missed a cache that holds another
\* path, has had a peer fetch fail, and has ended with 404.
C11_Witness ==
  /\ ~githubBacking
  /\ cache.cache # <<>>
  /\ \E r \in 1..MaxRequests :
       /\ reqs[r].pc = "done"
       /\ reqs[r].res.status = 404
       /\ Len(reqs[r].attempts) >= 1

\* C12: the step in which a backing-store read fails ends the request with
\* 404, issues no second read, and leaves the cache and the location table
\* exactly as they were.  (SpecNode)
C12_ReadFailureNotFound ==
  [][\A r \in 1..MaxRequests :
       (reqs[r].pc = "awaitRead" /\ reqs'[r] # reqs[r]
          /\ reqs'[r].read.kind = "error") =>
         /\ reqs'[r].pc = "done"
         /\ reqs'[r].res = Response(404, Null, Null, "Not found", NoInfo)
         /\ reqs'[r].reads = 1
         /\ cache' = cache
         /\ dht' = dht]_vars

\* A backing-store read has failed on a node whose cache and location table
\* are not empty.
C12_Witness ==
  /\ cache.cache # <<>>
  /\ DOMAIN dht # {}
  /\ \E r \in 1..MaxRequests :
       /\ reqs[r].pc = "done"
       /\ reqs[r].read.kind = "error"
       /\ reqs[r].res.status = 404

\* Requests r1 and r2 are two runs of the same request, r1 with location
\* hints and every peer fetch failing, r2 with an empty location table, the
\* backing store answering both alike.
C13_Pair(r1, r2) ==
  /\ Missed(reqs[r1]) /\ Missed(reqs[r2])
  /\ reqs[r1].path = reqs[r2].path
  /\ reqs[r1].hint # <<>> /\ AllFetchesFailed(reqs[r1])
  /\ reqs[r2].hint = <<>>
  /\ reqs[r1].read = reqs[r2].read

\* C13: a request whose peer fetches all fail gets the response (status,
\* body, source tag) and makes the cache write of the same request run with
\* an empty location table, and its response names no peer.
C13_HintsNeverChangeOutcome ==
  /\ \A r1, r2 \in 1..MaxRequests :
       C13_Pair(r1, r2) => /\ reqs[r1].res = reqs[r2].res
                           /\ reqs[r1].wrote = reqs[r2].wrote
  /\ \A r \in 1..MaxRequests :
       (Missed(reqs[r]) /\ AllFetchesFailed(reqs[r]))
         => /\ reqs[r].res.source # "peer"
            /\ reqs[r].res.peer = Null
            /\ reqs[r].res.body \in {reqs[r].read.text, "Not found",
                                      "Not found (no backing store)"}

\* Both runs have happened, the one with hints after a failed peer fetch,
\* and the backing store has returned content to both.
C13_Witness ==
  \E r1, r2 \in 1..MaxRequests :
    /\ C13_Pair(r1, r2)
    /\ Len(reqs[r1].attempts) >= 1
    /\ reqs[r1].read.kind = "ok"

\* C18: under every interleaving of two requests at their awaits, the cache
\* holds at most one entry per key, currentBytes is the sum of the entry
\* sizes, the count is within maxSize, no location entry has a duplicate or
\* more than 3 identifiers, every cached value is one a request wrote under
\* that key, and the last write to a key is the value the cache holds.
C18_RaceKeepsInvariants ==
  /\ NoDuplicate(MapKeys(cache.cache))
  /\ cache.currentBytes = SumSizes(cache.cache)
  /\ Len(cache.cache) <= cache.maxSize
  /\ \A h \in DOMAIN dht : NoDuplicate(dht[h]) /\ Len(dht[h]) <= 3
  /\ \A i \in 1..Len(cache.cache) :
       \E r \in 1..MaxRequests :
         /\ reqs[r].path = cache.cache[i].key
         /\ reqs[r].wrote = cache.cache[i].value
  /\ lastSet.key # Null =>
       /\ MapHas(cache.cache, lastSet.key)
       /\ MapGet(cache.cache, lastSet.key).value = lastSet.value

\* Two requests for the same path have overlapped, each has read the
\* backing store, and they have written different contents under the key.
C18_Witness ==
  /\ reqs[1].path = reqs[2].path
  /\ reqs[2].prev = [kind |-> "handleRequest", req |-> 1]
  /\ reqs[1].pc = "done" /\ reqs[2].pc = "done"
  /\ reqs[1].reads = 1 /\ reqs[2].reads = 1
  /\ reqs[1].wrote # Null /\ reqs[2].wrote # Null
  /\ reqs[1].wrote # reqs[2].wrote

-----------------------------------------------------------------------------
(* Claims about the administrative paths, checked under SpecNode *)

\* C14: a request to /health, /stats or /peers runs no tier of the pipeline
\* (no peer fetch, no backing-store read, no source tag) and leaves the
\* cache with its recency order, the location table, the peer registry and
\* every counter of this.stats unchanged.
C14_AdminPathPureRead ==
  [][\A r \in 1..MaxRequests :
       (reqs[r].pc = "new" /\ reqs'[r].pc # "new"
          /\ reqs'[r].path \in AdminPaths) =>
         /\ reqs'[r].pc = "done"
         /\ reqs'[r].res.source = Null
         /\ PeerFetches(reqs'[r]) = 0
         /\ reqs'[r].reads = 0
         /\ cache' = cache
         /\ dht' = dht
         /\ peers' = peers
         /\ stats' = stats]_vars

-----------------------------------------------------------------------------
(* SpecLife: the node from construction through start to shutdown, serving  *)
(* requests while its server listens and datagrams while its socket is open *)

InitLife == InitNode

NextLife ==
  \/ Start
  \/ StartResumed
  \/ AnnounceTimer
  \/ Shutdown
  \/ \E path \in NodePaths \cup AdminPaths :
       server = "listening" /\ HandleRequest(path)
  \/ \E r \in 1..MaxRequests, o \in ReadOutcomes : BackingRead(r, o)
  \/ \E nodeId \in NodePeerIds :
       /\ discoverySocket = "bound"
       /\ msgCount < MaxNodeMessages
       /\ HandlePeerMessage(FullAnnounce("peer_announce", nodeId),
                            [address |-> "10.0.0.1"])

SpecLife == InitLife /\ [][NextLife]_vars

-----------------------------------------------------------------------------
(* Claims about the node lifecycle, checked under SpecLife *)

\* The entries of lifeLog that follow the first entry mark.
After(mark) == SubSeq(lifeLog, IndexOf(lifeLog, mark) + 1, Len(lifeLog))

\* C19: start() binds the HTTP listener, binds the UDP socket, sends one
\* immediate announce, and only then schedules the periodic announce timer.
C19_StartOrder ==
  Includes(lifeLog, "start")
    => SubSeq(After("start"), 1, 4) = <<"listen", "bind", "send", "setInterval">>

\* shutdown() has been called on a node that start() had been called on.
C20_Case ==
  /\ Includes(lifeLog, "start")
  /\ Includes(lifeLog, "shutdown")
  /\ IndexOf(lifeLog, "start") < IndexOf(lifeLog, "shutdown")

\* The effects of shutdown.
C20_Effects ==
  SelectSeq(After("shutdown"),
            LAMBDA e : e \in {"clearInterval", "socketClose", "serverClose"})

\* C20: shutdown() on a started node cancels the periodic announce timer,
\* closes the UDP socket, closes the HTTP listener, in this order; and no
\* announce is sent after it.
C20_ShutdownOrder ==
  C20_Case
    => /\ C20_Effects = <<"clearInterval", "socketClose", "serverClose">>
       /\ ~Includes(After("shutdown"), "send")

-----------------------------------------------------------------------------
(* Claims about what each tier writes *)

\* C23: in the step in which the backing store satisfies a content request
\* (the response with source tag github is sent), the content is in the
\* cache under the request path and this node's identifier is in the
\* location entry of hash(path).  (SpecNode)
C23_BackingSuccessRecorded ==
  [][\A r \in 1..MaxRequests :
       (reqs'[r] # reqs[r] /\ reqs'[r].res.source = "github") =>
         /\ MapHas(cache'.cache, reqs'[r].path)
         /\ MapGet(cache'.cache, reqs'[r].path).value = reqs'[r].res.body
         /\ Includes(NodesOf(dht', HashPath(reqs'[r].path)), SelfId)]_vars

\* The backing store has satisfied a request for a path that had no
\* location entry, on a cache that held another path.
C23_Witness ==
  \E r \in 1..MaxRequests :
    /\ reqs[r].res.source = "github"
    /\ reqs[r].hint = <<>>
    /\ lastOp = [kind |-> "backingRead", req |-> r]
    /\ Len(cache.cache) = 2

\* C24: the step in which a peer satisfies a request writes the content
\* into the cache and leaves the location table unchanged; a cache hit
\* leaves the location table unchanged; a step of a request changes the
\* location table only when the backing store satisfies it.  (SpecRace)
C24_OnlyBackingReadRecords ==
  [][\A r \in 1..MaxRequests :
       reqs'[r] # reqs[r] =>
         /\ reqs'[r].res.source = "peer" =>
              /\ dht' = dht
              /\ MapHas(cache'.cache, reqs'[r].path)
              /\ MapGet(cache'.cache, reqs'[r].path).value = reqs'[r].res.body
         /\ reqs'[r].res.source = "cache" => dht' = dht
         /\ dht' # dht => reqs'[r].res.source = "github"]_vars

\* A peer has satisfied one request and the cache another.
C24_Witness ==
  \E r1, r2 \in 1..MaxRequests :
    /\ reqs[r1].res.source = "peer"
    /\ reqs[r2].res.source = "cache"

-----------------------------------------------------------------------------
(* Claims about the order and the number of peer fetches *)

\* The identifiers request rq has fetched from, in the order of the
\* fetches, the one in flight last.
Contacted(rq) ==
  [i \in 1..Len(rq.attempts) |-> rq.attempts[i].nodeId]
    \o (IF rq.pc = "awaitFetch" THEN <<rq.peer>> ELSE <<>>)

\* C25: within one request the candidates are contacted one at a time in
\* the order recorded in the location entry: every fetch but the last
\* issued has completed unsuccessfully (so none follows a successful
\* one), and candidates of the entry found at lookup are contacted in the
\* order of that entry.  (SpecMesh)
C25_OneAtATimeInOrder ==
  \A r \in 1..MaxRequests :
    LET rq == reqs[r]
        ids == Contacted(rq)
    IN  /\ \A i \in 1..Len(rq.attempts) :
             i < Len(ids) => ~rq.attempts[i].ok
        /\ \A i, j \in 1..Len(ids) :
             (i < j /\ ids[i] \in Range(rq.hint) /\ ids[j] \in Range(rq.hint)
                /\ ids[i] # ids[j])
               => IndexOf(rq.hint, ids[i]) < IndexOf(rq.hint, ids[j])

\* C26: a content request issues at most one peer fetch.  (SpecMesh)
C26_OnePeerFetchPerRequest ==
  \A r \in 1..MaxRequests : PeerFetches(reqs[r]) <= 1

\* The index of the location entry after which a step of request rq resumes
\* the loop.
LoopStart(rq) == IF rq.pc = "new" THEN 0 ELSE rq.idx

\* C27: a step of a request issues a peer fetch only to a candidate that
\* differs from this node's identifier and is in the registry, and counts
\* it in peerRequests; a step that issues no fetch leaves peerRequests
\* alone; a candidate the loop stops at without a fetch is absent from the
\* registry; and the candidates the loop passes without stopping, up to the
\* next one it stops at or to the end of the entry when it goes on to
\* step 3, are all this node itself.  (SpecMesh)
C27_FetchOnlyFromRegisteredOthers ==
  [][\A r \in 1..MaxRequests :
       reqs'[r] # reqs[r] =>
         LET old == reqs[r]
             new == reqs'[r]
             nodes == NodesOf(dht, HashPath(new.path))
             issued == PeerFetches(new) > PeerFetches(old)
             inLoop == new.pc \in {"awaitFetch", "awaitNull"}
             toStep3 == \/ new.reads > old.reads
                        \/ /\ new.pc = "done" /\ new.res.status = 404
                           /\ old.pc # "awaitRead"
             last == IF inLoop THEN new.idx - 1 ELSE Len(nodes)
         IN  /\ issued => /\ new.pc = "awaitFetch"
                          /\ new.peer = nodes[new.idx]
                          /\ new.peer # SelfId
                          /\ new.peer \in DOMAIN peers
                          /\ PeerFetches(new) = PeerFetches(old) + 1
                          /\ stats'.peerRequests = stats.peerRequests + 1
             /\ ~issued => stats'.peerRequests = stats.peerRequests
             /\ new.pc = "awaitNull" => /\ new.peer = nodes[new.idx]
                                        /\ new.peer # SelfId
                                        /\ new.peer \notin DOMAIN peers
             /\ (inLoop \/ toStep3) =>
                  \A k \in (LoopStart(old) + 1)..last : nodes[k] = SelfId]_vars

\* A request has passed an unregistered candidate and this node itself and
\* has issued its only fetch to the third candidate, a registered peer.
C27_Witness ==
  \E r \in 1..MaxRequests :
    LET nodes == NodesOf(dht, HashPath(reqs[r].path))
    IN  /\ reqs[r].pc = "awaitFetch"
        /\ reqs[r].idx = 3
        /\ reqs[r].attempts = <<>>
        /\ Len(nodes) = 3
        /\ nodes[1] \notin DOMAIN peers \cup {SelfId}
        /\ nodes[2] = SelfId
        /\ nodes[3] \in DOMAIN peers
        /\ stats.peerRequests = 1
        /\ lastOp = [kind |-> "peerAbsent", req |-> r]

-----------------------------------------------------------------------------
(* Claims about the order of the tiers and about retries *)

\* C28: a request that has issued a peer fetch or a backing-store read
\* looked its path up in the cache first and did not find it; and a request
\* that has issued a backing-store read has no fetch in flight and every
\* peer fetch it made has failed.  (SpecMesh)
C28_TiersInProgramOrder ==
  \A r \in 1..MaxRequests :
    LET rq == reqs[r]
    IN  /\ (PeerFetches(rq) > 0 \/ rq.reads > 0) => ~rq.wasCached
        /\ rq.reads > 0 => (PeerFetches(rq) = Len(rq.attempts)
                              /\ AllFetchesFailed(rq))

\* SpecRetry: one request for one path on a node whose location table is
\* written from outside while the request awaits its fetches.
MaxRetryRecords == 5  \* updateDHT calls made from outside the node
MaxRetryMessages == 1 \* datagrams received

RetryPeerIds == {"n1", "n2", "n3"}

RetryFetchOutcomes ==
  {[kind |-> "ok", ok |-> TRUE, text |-> "x"],
   [kind |-> "error", ok |-> FALSE, text |-> Null]}

RetryReadOutcomes ==
  {[kind |-> "ok", ok |-> TRUE, text |-> "x"],
   [kind |-> "error", ok |-> FALSE, text |-> Null]}

InitRetry == InitNode

NextRetry ==
  \/ reqCount < MaxMeshRequests /\ HandleRequest("/a.txt")
  \/ \E r \in 1..MaxRequests : PeerAbsent(r)
  \/ \E r \in 1..MaxRequests, o \in RetryFetchOutcomes : PeerFetched(r, o)
  \/ \E r \in 1..MaxRequests, o \in RetryReadOutcomes : BackingRead(r, o)
  \/ /\ msgCount < MaxRetryMessages
     /\ HandlePeerMessage(FullAnnounce("peer_announce", "n1"),
                          [address |-> "10.0.0.1"])
  \/ \E nodeId \in RetryPeerIds \cup {SelfId} :
       /\ dhtCount < MaxRetryRecords
       /\ RecordDHT(HashPath("/a.txt"), nodeId)

SpecRetry == InitRetry /\ [][NextRetry]_vars

\* C29: within a request no step is retried: no peer is fetched from twice
\* and the backing store is read at most once.  (SpecRetry)
C29_NoStepRetried ==
  \A r \in 1..MaxRequests :
    LET ids == Contacted(reqs[r])
    IN  /\ \A i, j \in 1..Len(ids) : i < j => ids[i] # ids[j]
        /\ reqs[r].reads <= 1

-----------------------------------------------------------------------------
(* Claims about the lifetime of registry records *)

\* C30: no step removes a key from the Peer Registry, and a step that
\* handles a valid announce from an identifier already in the registry
\* leaves the key set and every other peer's record as they were and sets
\* that identifier's address, port, lastSeen and cache figures from the
\* announce (an absent cache figure counts as 0).  (SpecPeers)
C30_PeersNeverExpire ==
  [][/\ DOMAIN peers \subseteq DOMAIN peers'
     /\ (/\ msgCount' = msgCount + 1
         /\ ExpectedShape(lastMsg'.data)
         /\ lastMsg'.data.nodeId # SelfId
         /\ lastMsg'.data.nodeId \in DOMAIN peers)
          => LET data == lastMsg'.data
                 n == data.nodeId
             IN  /\ DOMAIN peers' = DOMAIN peers
                 /\ \A m \in DOMAIN peers \ {n} : peers'[m] = peers[m]
                 /\ peers'[n].nodeId = n
                 /\ peers'[n].address = lastMsg'.rinfo.address
                 /\ peers'[n].port = data.port
                 /\ peers'[n].lastSeen = now
                 /\ peers'[n].cacheSize =
                      (IF data.cacheSize = UndefinedNum THEN 0 ELSE data.cacheSize)
                 /\ peers'[n].cacheBytes =
                      (IF data.cacheBytes = UndefinedNum THEN 0 ELSE data.cacheBytes)]_vars

\* With two peers registered, the one registered first has announced again,
\* later and from another address, and its record has changed.
C30_Witness ==
  /\ Len(newPeerLog) = 2
  /\ DOMAIN peers = Range(newPeerLog)
  /\ ExpectedShape(lastMsg.data)
  /\ lastMsg.data.nodeId = newPeerLog[1]
  /\ lastMsg.changed
  /\ peers[newPeerLog[1]].address # peers[newPeerLog[2]].address
  /\ peers[newPeerLog[1]].lastSeen > peers[newPeerLog[2]].lastSeen

-----------------------------------------------------------------------------
(* Claims about the counters *)

\* C31: the step that answers a request from the cache increases cacheHits
\* by exactly 1 and bytesServed by the length of the served content, and
\* leaves cacheMisses, peerRequests, peerHits and githubFallbacks
\* unchanged.  (SpecRace)
C31_CacheHitCounters ==
  [][\A r \in 1..MaxRequests :
       (reqs'[r] # reqs[r] /\ reqs'[r].res.source = "cache") =>
         /\ stats'.cacheHits = stats.cacheHits + 1
         /\ stats'.bytesServed = stats.bytesServed + Len(reqs'[r].res.body)
         /\ stats'.cacheMisses = stats.cacheMisses
         /\ stats'.peerRequests = stats.peerRequests
         /\ stats'.peerHits = stats.peerHits
         /\ stats'.githubFallbacks = stats.githubFallbacks]_vars

\* The second request has been answered from the cache with two bytes,
\* after a first request that missed.
C31_Witness ==
  /\ reqs[2].res.source = "cache"
  /\ Len(reqs[2].res.body) = 2
  /\ stats.cacheMisses = 1
  /\ stats.cacheHits = 1
  /\ stats.bytesServed = 4

\* SpecStats: content and administrative requests that interleave at their
\* awaits, on a node with one peer and one location hint recorded from
\* outside.
MaxStatsRecords == 1  \* updateDHT calls made from outside the node
MaxStatsMessages == 1 \* datagrams received

StatsContents == {"", "x"}

StatsOutcomes ==
  {[kind |-> "ok", ok |-> TRUE, text |-> c] : c \in StatsContents}
  \cup {[kind |-> "error", ok |-> FALSE, text |-> Null]}

InitStats == InitNode

NextStats ==
  \/ \E path \in {"/a.txt"} \cup AdminPaths : HandleRequest(path)
  \/ \E r \in 1..MaxRequests : PeerAbsent(r)
  \/ \E r \in 1..MaxRequests, o \in StatsOutcomes : PeerFetched(r, o)
  \/ \E r \in 1..MaxRequests, o \in StatsOutcomes : BackingRead(r, o)
  \/ /\ msgCount < MaxStatsMessages
     /\ HandlePeerMessage(FullAnnounce("peer_announce", "n1"),
                          [address |-> "10.0.0.1"])
  \/ \E nodeId \in {"n1", "n2"} :
       /\ dhtCount < MaxStatsRecords
       /\ RecordDHT(HashPath("/a.txt"), nodeId)

SpecStats == InitStats /\ [][NextStats]_vars

\* The administrative requests handled so far.
AdminHandled ==
  Cardinality({r \in 1..MaxRequests :
                 reqs[r].pc # "new" /\ reqs[r].path \in AdminPaths})

\* C32: in every reachable state, between the awaits of interleaved
\* requests included, cacheHits + cacheMisses + the number of
\* administrative requests handled = requests, peerHits <= peerRequests and
\* githubFallbacks <= cacheMisses.  (SpecStats)
C32_CounterInvariants ==
  /\ stats.cacheHits + stats.cacheMisses + AdminHandled = stats.requests
  /\ stats.peerHits <= stats.peerRequests
  /\ stats.githubFallbacks <= stats.cacheMisses

\* An administrative request has been handled while a content request
\* awaits its peer fetch.
C32_Witness ==
  /\ AdminHandled = 1
  /\ stats.requests = 2
  /\ stats.peerRequests = 1
  /\ \E r \in 1..MaxRequests : reqs[r].pc = "awaitFetch"

-----------------------------------------------------------------------------
(* Termination of a request *)

\* The awaited call of request r returns or fails.
Resume(r) ==
  \/ PeerAbsent(r)
  \/ \E o \in StatsOutcomes : PeerFetched(r, o)
  \/ \E o \in StatsOutcomes : BackingRead(r, o)

\* SpecStats with every awaited peer fetch and backing-store read
\* eventually returning or failing.
SpecStatsFair ==
  InitStats /\ [][NextStats]_vars /\ \A r \in 1..MaxRequests : WF_vars(Resume(r))

\* Request r has been answered.
Answered(r) == reqs[r].pc = "done"

\* The responses a content request ends with.
ContentResponse(res) ==
  \/ res.status = 200 /\ res.source \in {"cache", "peer", "github"}
  \/ res.status = 404

\* C34: with every peer fetch and backing-store read eventually returning
\* or failing, every content request received is eventually answered; its
\* response is 200 from the cache, a peer or the backing store, or 404;
\* and once answered its response is never written again.
\* (SpecStatsFair)
C34_EveryRequestAnsweredOnce ==
  /\ \A r \in 1..MaxRequests : (reqs[r].pc # "new") ~> Answered(r)
  /\ [](\A r \in 1..MaxRequests :
          (Answered(r) /\ reqs[r].path \notin AdminPaths)
            => ContentResponse(reqs[r].res))
  /\ [][\A r \in 1..MaxRequests : Answered(r) => reqs'[r] = reqs[r]]_vars

\* Both requests have been answered, one with 404 after a failed peer
\* fetch and a failed read, the other from a peer.
C34_Witness ==
  \E r1, r2 \in 1..MaxRequests :
    /\ Answered(r1) /\ Answered(r2)
    /\ reqs[r1].res.status = 404 /\ reqs[r1].reads = 1
    /\ Len(reqs[r1].attempts) = 1
    /\ reqs[r2].res.source = "peer"

-----------------------------------------------------------------------------
(* SpecAuditSeq and SpecAudit: one AuditLog under append calls awaited one  *)
(* at a time, and under append calls that overlap                           *)

MaxAppends == 3      \* append calls
MaxAuditTime == 1    \* Date.now() runs over 0..MaxAuditTime

AuditOperations == {"Twrite", "Topen"}
AuditData == {"/x"}

\* The log is kept in a file, or in memory only (no logPath).
InitAudit ==
  /\ InitNodeWith(DefaultCacheSize, DefaultCacheBytes, FALSE)
  /\ \E logPath \in {"audit.log", Null} : audit = NewAuditLog(logPath)
  /\ limiter = NewRateLimiter(EmptyOptions)
  /\ graph = NewDependencyGraph
  /\ loader = NewCapabilityLoader

\* Date.now() does not run backwards.
AuditTimes ==
  {ts \in 0..MaxAuditTime :
     \A c \in 1..Len(audit.calls) : audit.calls[c].entry.timestamp <= ts}

NextAuditSeq ==
  \/ \E operation \in AuditOperations, data \in AuditData, ts \in AuditTimes :
       /\ Len(audit.calls) < MaxAppends
       /\ InFlight(audit) = {}
       /\ AuditAppend(operation, data, ts)
  \/ \E c \in 1..MaxAppends, ok \in BOOLEAN : AuditAppendFileDone(c, ok)

SpecAuditSeq == InitAudit /\ [][NextAuditSeq]_vars

NextAudit ==
  \/ \E operation \in AuditOperations, data \in AuditData, ts \in AuditTimes :
       /\ Len(audit.calls) < MaxAppends
       /\ AuditAppend(operation, data, ts)
  \/ \E c \in 1..MaxAppends, ok \in BOOLEAN : AuditAppendFileDone(c, ok)

SpecAudit == InitAudit /\ [][NextAudit]_vars

\* Entry i (counted from 0) has sequence number i and links to the hash of
\* the entry before it, null for entry 0.
Chained(entries) ==
  \A i \in 1..Len(entries) :
    /\ entries[i].sequence = i - 1
    /\ entries[i].previousHash =
         (IF i = 1 THEN NullHash ELSE entries[i - 1].hash)

\* C35: after any sequence of append calls awaited one at a time on a fresh
\* log, entry i has sequence number i, its previousHash is the hash of
\* entry i-1 (null for entry 0), hashChain is the last entry's hash, and
\* verifyIntegrity() reports valid.  (SpecAuditSeq)
C35_SequentialChain ==
  InFlight(audit) = {} =>
    /\ Chained(audit.entries)
    /\ audit.hashChain = (IF audit.entries = <<>> THEN NullHash
                          ELSE audit.entries[Len(audit.entries)].hash)
    /\ VerifyIntegrity(audit).valid
    /\ VerifyIntegrity(audit).index = Len(audit.entries)

\* Three appends have been stored one after the other, two of them alike
\* but for their place in the chain, and a file write failed in between.
C35_Witness ==
  /\ Len(audit.entries) = 2
  /\ Len(audit.calls) = 3
  /\ InFlight(audit) = {}
  /\ audit.calls[2].pc = "thrown"
  /\ audit.entries[1].operation = audit.entries[2].operation
  /\ audit.entries[1].timestamp = audit.entries[2].timestamp

\* C36: for every interleaving of append calls, the stored entries have
\* distinct consecutive sequence numbers, each links to its predecessor's
\* hash, and verifyIntegrity() reports valid.  (SpecAudit)
C36_AppendAtomic ==
  /\ Chained(audit.entries)
  /\ \A i, j \in 1..Len(audit.entries) :
       i # j => audit.entries[i].sequence # audit.entries[j].sequence
  /\ VerifyIntegrity(audit).valid

-----------------------------------------------------------------------------
(* SpecLimiter: one RateLimiter under check, reset and cleanup calls at any *)
(* times                                                                    *)

MaxLimiterCalls == 4 \* check, reset and cleanup calls
MaxElapses == 2      \* times at which Date.now() moves on

LimiterOptions ==
  {[maxRequests |-> m, windowMs |-> w, burstSize |-> b] :
     m \in {UndefinedNum, 1, 3}, w \in {UndefinedNum, 10},
     b \in {UndefinedNum, 2, 4}}

ClientIds == {"c1", "c2"}

\* By how much Date.now() moves on between calls: within a window, one
\* window, two and a half windows, a thousand windows and more.
Elapsed == {5, 10, 25, 60001}

InitLimiter ==
  /\ InitNodeWith(DefaultCacheSize, DefaultCacheBytes, FALSE)
  /\ audit = NewAuditLog("audit.log")
  /\ \E options \in LimiterOptions : limiter = NewRateLimiter(options)
  /\ graph = NewDependencyGraph
  /\ loader = NewCapabilityLoader

LimiterCall(l) ==
  /\ limiter.calls < MaxLimiterCalls
  /\ limiter' = [l EXCEPT !.calls = @ + 1]
  /\ UNCHANGED <<nodeVars, audit, graph, loader>>

LimiterCheck(clientId) == LimiterCall(Check(limiter, clientId, limiter.clock))

LimiterReset(clientId) == LimiterCall(Reset(limiter, clientId, limiter.clock))

LimiterCleanup == LimiterCall(Cleanup(limiter, limiter.clock))

\* Time passes.
LimiterElapse(d) ==
  /\ limiter.elapses < MaxElapses
  /\ limiter' = [limiter EXCEPT !.clock = @ + d, !.elapses = @ + 1]
  /\ UNCHANGED <<nodeVars, audit, graph, loader>>

NextLimiter ==
  \/ \E clientId \in ClientIds : LimiterCheck(clientId)
  \/ \E clientId \in ClientIds : LimiterReset(clientId)
  \/ LimiterCleanup
  \/ \E d \in Elapsed : LimiterElapse(d)

SpecLimiter == InitLimiter /\ [][NextLimiter]_vars

\* C37: after any sequence of check, reset and cleanup calls at any times,
\* for any configured maxRequests and burstSize, every tracked client has
\* 0 <= tokens <= burstSize; and check returns true exactly when at least
\* one token is available after the refill, consuming one, and false
\* otherwise, consuming none.  (SpecLimiter)
C37_TokensWithinBurst ==
  /\ \A k \in DOMAIN limiter.clients :
       /\ 0 <= limiter.clients[k].tokens
       /\ limiter.clients[k].tokens <= limiter.burstSize
  /\ limiter.last.op = "check" =>
       /\ limiter.last.result = (limiter.last.available >= TokenUnit)
       /\ limiter.clients[limiter.last.clientId].tokens =
            limiter.last.available - (IF limiter.last.result THEN TokenUnit ELSE 0)

-----------------------------------------------------------------------------
(* SpecGraph: one DependencyGraph built by addNode calls and queried        *)

MaxAddNodes == 3     \* addNode calls

\* The requires arrays handed to addNode: up to two distinct names,
\* capabilities and packages.
GraphRequires ==
  LET names == CapabilityIds \cup PackageIds
  IN  {<<>>} \cup {<<x>> : x \in names}
        \cup UNION {{<<x, y>> : y \in names \ {x}} : x \in names}

InitGraph == InitWith(DefaultCacheSize, DefaultCacheBytes, FALSE)

NextGraph ==
  \/ \E id \in CapabilityIds, requires \in GraphRequires :
       graph.adds < MaxAddNodes /\ GraphAddNode(id, requires)
  \/ GraphQuery

SpecGraph == InitGraph /\ [][NextGraph]_vars

\* The requires-relation of a graph: the pairs <<node, required node>>.
Requires(nodes) ==
  UNION {{<<nodes[i].key, nodes[i].requires[j]>> :
            j \in 1..Len(nodes[i].requires)} : i \in 1..Len(nodes)}

\* The nodes reached from the set S along at most k requires-edges, one at
\* least.
RECURSIVE Reached(_, _, _)
Reached(nodes, S, k) ==
  IF k = 0 THEN {}
  ELSE LET T == {e[2] : e \in {f \in Requires(nodes) : f[1] \in S}}
       IN  T \cup Reached(nodes, T, k - 1)

\* The requires-relation has a directed cycle.
HasCycle(nodes) ==
  \E i \in 1..Len(nodes) : nodes[i].key \in Reached(nodes, {nodes[i].key}, Len(nodes))

\* C38: getTopologicalOrder returns each node of a graph built by addNode
\* exactly once, and when the graph is acyclic every node comes after all
\* the nodes it requires.  (SpecGraph)
C38_TopologicalOrder ==
  graph.queried =>
    /\ Len(graph.order) = Len(graph.nodes)
    /\ Range(graph.order) = Range(MapKeys(graph.nodes))
    /\ ~HasCycle(graph.nodes) =>
         \A e \in Requires(graph.nodes) :
           IndexOf(graph.order, e[2]) < IndexOf(graph.order, e[1])

\* A chain of three nodes added dependents first has been ordered.
C38_Witness ==
  /\ graph.queried
  /\ Len(graph.nodes) = 3
  /\ ~HasCycle(graph.nodes)
  /\ Cardinality(Requires(graph.nodes)) = 2
  /\ graph.order # MapKeys(graph.nodes)
  /\ graph.order[3] = graph.nodes[1].key

\* The sequence p is a directed cycle of the requires-relation.
IsCycle(nodes, p) ==
  /\ p # <<>>
  /\ \A i \in 1..Len(p) :
       <<p[i], IF i = Len(p) THEN p[1] ELSE p[i + 1]>> \in Requires(nodes)

\* C39: validate reports invalid with a cycle error if and only if the
\* requires-relation has a directed cycle, a self-dependency included, and
\* the path detectCycle returns is a cycle of the graph.  (SpecGraph)
C39_CycleDetection ==
  graph.queried =>
    /\ (~graph.validation.valid
          /\ graph.validation.error = "Dependency cycle detected")
         <=> HasCycle(graph.nodes)
    /\ graph.validation.cycle # <<>> =>
         IsCycle(graph.nodes, graph.validation.cycle)
    /\ graph.validation.valid <=> ~HasCycle(graph.nodes)

\* A cycle of two nodes has been found that the first node of the graph
\* is not on.
C39_Witness ==
  /\ graph.queried
  /\ Len(graph.validation.cycle) = 2
  /\ ~Includes(graph.validation.cycle, graph.nodes[1].key)

-----------------------------------------------------------------------------
(* SpecLoader: one CapabilityLoader and one call of loadFromConfig          *)

MaxLoadDepth == 4    \* loadCapability calls in progress at one time
MaxConfigured == 2   \* elements of config.capabilities

\* The requires arrays of the manifests.
LoaderRequires ==
  {<<>>, <<"CAP-A">>, <<"CAP-B">>, <<"CAP-C">>, <<"crypto">>,
   <<"CAP-B", "CAP-C">>, <<"crypto", "CAP-B">>}

\* What discoverCapabilities finds: manifests for some of the capability
\* ids, in the order of the directory listing.
Discoveries ==
  UNION {{[i \in 1..Len(ids) |-> [key |-> ids[i], requires |-> f[ids[i]]]] :
            f \in [CapabilityIds -> LoaderRequires]} :
         ids \in {SelectSeq(<<"CAP-A", "CAP-B", "CAP-C">>, LAMBDA id : id \in S) :
                    S \in SUBSET CapabilityIds}}

\* The config.capabilities arrays.
Configs ==
  LET caps == {[id |-> id, enabled |-> e] : id \in CapabilityIds, e \in BOOLEAN}
  IN  UNION {[1..n -> caps] : n \in 1..MaxConfigured}

InitLoader ==
  /\ InitNodeWith(DefaultCacheSize, DefaultCacheBytes, FALSE)
  /\ audit = NewAuditLog("audit.log")
  /\ limiter = NewRateLimiter(EmptyOptions)
  /\ graph = NewDependencyGraph
  /\ \E manifests \in Discoveries, config \in Configs :
       loader = [NewCapabilityLoader EXCEPT !.manifests = manifests,
                                            !.config = config]

NextLoader ==
  \/ LoadFromConfig
  \/ LoaderStep(MaxLoadDepth)

SpecLoader == InitLoader /\ [][NextLoader]_vars

\* The capability ids loadFromConfig has to load: those enabled in the
\* configuration and those they require, directly or not.
Wanted(l) ==
  LET enabled == {l.config[i].id : i \in {j \in 1..Len(l.config) : l.config[j].enabled}}
  IN  enabled \cup (Reached(l.manifests, enabled, Len(l.manifests)) \cap CapabilityIds)

\* The CAP- requires of the configured capabilities, all of them
\* discovered, form a cycle.
ConfiguredCycle(l) ==
  /\ \A id \in Wanted(l) : MapHas(l.manifests, id)
  /\ \E id \in Wanted(l) : id \in Reached(l.manifests, {id}, Len(l.manifests))

\* C40: loadFromConfig does not recurse without end (no capability is
\* being loaded by two nested loadCapability calls at once); when the CAP-
\* requires of the configured capabilities form a cycle, the call ends by
\* throwing 'Dependency graph invalid'; and a capability is instantiated
\* only after all its CAP- dependencies are loaded.  (SpecLoader)
C40_LoadTerminates ==
  /\ \A i, j \in 1..Len(loader.stack) :
       i # j => loader.stack[i].id # loader.stack[j].id
  /\ (loader.pc \in {"returned", "thrown"} /\ ConfiguredCycle(loader))
       => loader.error = "Dependency graph invalid"
  /\ \A k \in 1..Len(loader.instantiated) :
       \A d \in Range(RequiresOf(loader, loader.instantiated[k].id)) :
         StartsWithCap(d) => Includes(loader.instantiated[k].loaded, d)

====
